---- MODULE Spec2Model ----
(***************************************************************************)
(* A model of the resilience core of asana-extractor:                      *)
(*   pkg/ratelimit  - Limiter.Acquire / Limiter.Release                    *)
(*   pkg/retry      - ShouldRetry, GetRetryAfter, CalculateBackoff, Do     *)
(*   pkg/client     - Client.Do, Client.GetBody                            *)
(*   pkg/asana      - Client.GetAllUsers, Client.GetAllProjects            *)
(*   pkg/extractor  - Extractor.Extract and its goroutines                 *)
(*   pkg/scheduler  - CronScheduler.Start / CronScheduler.Stop             *)
(* Each subsystem has its own specification over its own variables; the    *)
(* variables of the other subsystems are left alone by it.                 *)
(***************************************************************************)
EXTENDS Integers, Naturals, Sequences, FiniteSets, TLC

VARIABLES
    \* ---- ratelimit.Limiter (limiter.go:22-32) ----
    currentReads,    \* Limiter.currentReads
    currentWrites,   \* Limiter.currentWrites
    tokens,          \* tokens available in Limiter.rateLimiter
    \* ---- the concurrent callers of the Limiter ----
    pc,              \* where each caller stands in Acquire / what it holds
    reqType,         \* the reqType argument of the caller's current call
    ctxDone,         \* whether the ctx of the caller's current call is done
    polled,          \* the call has waited in the select of limiter.go:86-91
    incs,            \* how often the call has incremented an in-flight counter
    \* ---- one call of retry.Do (retry.go:100-141) ----
    rCfg,            \* cfg
    rPc,             \* "loop": at the loop head; "wait": in the select; "done"
    attempt,         \* the loop variable
    resp,            \* resp, the response of the last call of fn
    err,             \* err, the error of the last call of fn
    backoff,         \* backoff of the wait in progress
    rCtxDone,        \* whether ctx is done
    retResp,         \* the response Do returned
    retErr,          \* the error Do returned
    calls,           \* how often fn was called
    retryables,      \* how many outcomes of fn were a transport error, a 429 or a 5xx
    closed,          \* the calls of fn whose response body Do closed, in order
    \* ---- one call of retry.CalculateBackoff (retry.go:77-96) ----
    bIn,             \* the arguments and the draw of rand.Float64
    bOut,            \* the duration returned, once the call has returned
    \* ---- one call of client.Client.Do (client.go:43-68) ----
    retryConfig,     \* Client.retryConfig
    cPc,             \* "start", "acquire": in Acquire, "retry": in retry.Do, "returned"
    cMethod,         \* req.Method
    cCtxDone,        \* whether the ctx of the call is done
    cRetResp,        \* the response Client.Do returned
    cRetErr,         \* the error Client.Do returned
    releases,        \* how often the call has called Release
    \* ---- one call of asana.Client.GetAllUsers / GetAllProjects ----
    pgClass,         \* "users": GetAllUsers, "projects": GetAllProjects
    pgPages,         \* what the server answers to the 1st, 2nd, ... request
    pgPc,            \* "loop": in the for loop, "done": returned
    allItems,        \* allUsers / allProjects
    currentOffset,   \* currentOffset
    fetches,         \* how often GetUsers / GetProjects was called
    pgRet,           \* what the call returned
    pgSent,          \* the offset parameter of each request sent, in order
    \* ---- one call of extractor.Extract (extractor.go:148-232) ----
    wPc,             \* where each worker goroutine stands
    wRes,            \* users, err / projects, err of each worker
    wIdx,            \* the index of the item each worker's range loop is at
    wUpd,            \* the update each worker is about to send
    results,         \* the results channel: the updates buffered in it
    resultsClosed,   \* close(results) was called
    errChan,         \* the errChan channel: the errors buffered in it
    errChanClosed,   \* close(errChan) was called
    wg,              \* the counter of the WaitGroup
    doneProcessing,  \* close(doneProcessing) was called
    aggPc,           \* where the stats collector goroutine stands
    aggUpd,          \* the update it has received and not yet applied
    coPc,            \* where the coordination goroutine stands
    mPc,             \* where the goroutine that called Extract stands
    stats,           \* *stats
    exRet,           \* the error Extract returned, once it has returned
    writeLog,        \* the WriteUser / WriteProject calls of each worker, in order
    wWhen,           \* whether a worker made a write call before Extract had
                     \* returned (early), and after it had (late)
    sentLog,         \* the updates each worker has sent, in order
    errLog,          \* the errors sent on errChan, in order
    exCtxDone,       \* the ctx passed to Extract is cancelled
    \* ---- one call of client.Client.GetBody (client.go:81-94) ----
    gbRet,           \* what GetBody returned, once it has returned, and whether
                     \* it closed the body of the response it got
    gbURLValid,      \* http.NewRequestWithContext accepts the url of the call
    pgURLParses,     \* url.Parse accepts the URL made of c.baseURL and c.workspace
    \* ---- Limiter.rateLimiter over time (limiter.go:42-47, 57) ----
    bkBurst,         \* cfg.RequestsPerMinute, the burst of the bucket
    bkTokens,        \* the tokens in the bucket
    bkNow,           \* the time since NewLimiter, in refill intervals
    bkGrants,        \* the times at which Wait returned nil, in order
    \* ---- CronScheduler.Start (scheduler.go:31-58) ----
    schPc,           \* where the goroutine that called Start stands
    schCtxDone,      \* the ctx passed to Start is cancelled
    cronRunning,     \* s.cron is started and not stopped
    jobs,            \* the runs of the job: "none", "running" or "done"
    schRet,          \* what Start returned, once it has returned
    \* ---- one call of retry.ShouldRetry (retry.go:30-46) ----
    srIn,            \* resp and err
    srOut            \* the value returned, once the call has returned

limiterVars == <<currentReads, currentWrites, tokens, pc, reqType, ctxDone, polled, incs>>

retryVars == <<rCfg, rPc, attempt, resp, err, backoff, rCtxDone, retResp, retErr,
               calls, retryables, closed>>

backoffVars == <<bIn, bOut>>

clientVars == <<retryConfig, cPc, cMethod, cCtxDone, cRetResp, cRetErr, releases>>

pagerVars == <<pgClass, pgPages, pgPc, allItems, currentOffset, fetches, pgRet, pgSent,
               pgURLParses>>

extractVars == <<wPc, wRes, wIdx, wUpd, results, resultsClosed, errChan, errChanClosed,
                 wg, doneProcessing, aggPc, aggUpd, coPc, mPc, stats, exRet,
                 writeLog, sentLog, errLog, exCtxDone, wWhen>>

bodyVars == <<gbRet, gbURLValid>>

bucketVars == <<bkBurst, bkTokens, bkNow, bkGrants>>

schedVars == <<schPc, schCtxDone, cronRunning, jobs, schRet>>

shouldVars == <<srIn, srOut>>

vars == <<limiterVars, retryVars, backoffVars, clientVars, pagerVars, extractVars,
          bodyVars, bucketVars, schedVars, shouldVars>>

\* What each subsystem's specification leaves alone.
notLimiterVars == <<retryVars, backoffVars, clientVars, pagerVars, extractVars,
                    bodyVars, bucketVars, schedVars, shouldVars>>
notRetryVars == <<limiterVars, backoffVars, clientVars, pagerVars, extractVars,
                  bodyVars, bucketVars, schedVars, shouldVars>>
notBackoffVars == <<limiterVars, retryVars, clientVars, pagerVars, extractVars,
                    bodyVars, bucketVars, schedVars, shouldVars>>
notPagerVars == <<limiterVars, retryVars, backoffVars, clientVars, extractVars,
                  bodyVars, bucketVars, schedVars, shouldVars>>
\* Client.Do works on the Limiter, retry.Do and its own variables.
notClientVars == <<backoffVars, pagerVars, extractVars,
                   bodyVars, bucketVars, schedVars, shouldVars>>
\* Client.GetBody works on Client.Do's variables and its own.
notBodyVars == <<backoffVars, pagerVars, extractVars, bucketVars, schedVars, shouldVars>>
notBucketVars == <<limiterVars, retryVars, backoffVars, clientVars, pagerVars, extractVars,
                   bodyVars, schedVars, shouldVars>>
notSchedVars == <<limiterVars, retryVars, backoffVars, clientVars, pagerVars, extractVars,
                  bodyVars, bucketVars, shouldVars>>
notShouldVars == <<limiterVars, retryVars, backoffVars, clientVars, pagerVars, extractVars,
                   bodyVars, bucketVars, schedVars>>
notExtractVars == <<limiterVars, retryVars, backoffVars, clientVars, pagerVars,
                    bodyVars, bucketVars, schedVars, shouldVars>>

\* A nil *http.Response and a nil error.
NilResp == [nil |-> TRUE]
NilErr == [kind |-> "nil"]

\* No call of retry.Do is under way.
RetryIdle ==
    /\ rCfg = [MaxRetries |-> 0, InitialBackoff |-> 0, MaxBackoff |-> 0]
    /\ rPc = "idle"
    /\ attempt = 0
    /\ resp = NilResp
    /\ err = NilErr
    /\ backoff = 0
    /\ rCtxDone = FALSE
    /\ retResp = NilResp
    /\ retErr = NilErr
    /\ calls = 0
    /\ retryables = 0
    /\ closed = <<>>

\* A Limiter nobody calls.
LimiterIdle ==
    /\ currentReads = 0
    /\ currentWrites = 0
    /\ tokens = 0
    /\ pc = <<>>
    /\ reqType = <<>>
    /\ ctxDone = <<>>
    /\ polled = <<>>
    /\ incs = <<>>

\* No call of retry.CalculateBackoff is under way.
BackoffIdle ==
    /\ bIn = [attempt |-> 0, cfg |-> [MaxRetries |-> 0, InitialBackoff |-> 0, MaxBackoff |-> 0],
              retryAfter |-> 0, draw |-> 0]
    /\ bOut = [returned |-> FALSE, d |-> 0]

\* No call of Client.Do is under way.
ClientIdle ==
    /\ retryConfig = [MaxRetries |-> 0, InitialBackoff |-> 0, MaxBackoff |-> 0]
    /\ cPc = "idle"
    /\ cMethod = "GET"
    /\ cCtxDone = FALSE
    /\ cRetResp = NilResp
    /\ cRetErr = NilErr
    /\ releases = 0

\* A nil slice.
NilSlice == [nil |-> TRUE, items |-> <<>>]

\* No call of GetAllUsers / GetAllProjects is under way.
PagerIdle ==
    /\ pgClass = "users"
    /\ pgPages = <<>>
    /\ pgPc = "idle"
    /\ allItems = NilSlice
    /\ currentOffset = ""
    /\ fetches = 0
    /\ pgRet = [slice |-> NilSlice, err |-> NilErr]
    /\ pgSent = <<>>
    /\ pgURLParses = TRUE

\* stats := &Stats{}
ZeroStats == [UsersExtracted |-> 0, ProjectsExtracted |-> 0, Errors |-> 0, Duration |-> 0]

\* No call of Extract is under way.
ExtractIdle ==
    /\ wPc = <<>>
    /\ wRes = <<>>
    /\ wIdx = <<>>
    /\ wUpd = <<>>
    /\ results = <<>>
    /\ resultsClosed = FALSE
    /\ errChan = <<>>
    /\ errChanClosed = FALSE
    /\ wg = 0
    /\ doneProcessing = FALSE
    /\ aggPc = "idle"
    /\ aggUpd = "none"
    /\ coPc = "idle"
    /\ mPc = "idle"
    /\ stats = ZeroStats
    /\ exRet = [returned |-> FALSE, err |-> NilErr]
    /\ writeLog = <<>>
    /\ sentLog = <<>>
    /\ errLog = <<>>
    /\ exCtxDone = FALSE
    /\ wWhen = <<>>

\* A nil []byte.
NilBytes == [nil |-> TRUE]

\* No call of Client.GetBody has returned.
BodyIdle ==
    /\ gbRet = [state |-> "called", body |-> NilBytes, err |-> NilErr, closedBody |-> FALSE]
    /\ gbURLValid = TRUE

\* No Limiter is observed over time.
BucketIdle ==
    /\ bkBurst = 0
    /\ bkTokens = 0
    /\ bkNow = 0
    /\ bkGrants = <<>>

\* No CronScheduler is started.
SchedIdle ==
    /\ schPc = "idle"
    /\ schCtxDone = FALSE
    /\ cronRunning = FALSE
    /\ jobs = <<>>
    /\ schRet = [returned |-> FALSE, err |-> NilErr]

\* No call of retry.ShouldRetry is under way.
ShouldIdle ==
    /\ srIn = [resp |-> NilResp, err |-> NilErr]
    /\ srOut = [returned |-> FALSE, v |-> FALSE]

\* The subsystems that have a specification of their own further down.
OthersIdle == BodyIdle /\ BucketIdle /\ SchedIdle /\ ShouldIdle

(***************************************************************************)
(* Bounds of the model.                                                    *)
(***************************************************************************)
NumCallers == 3

\* retry.Config values: MaxRetries in -1..MaxRetriesBound, InitialBackoff in
\* 0..InitialBackoffBound and MaxBackoff in 0..MaxBackoffBound nanoseconds
MaxRetriesBound == 2
InitialBackoffBound == 2
MaxBackoffBound == 3
\* rand.Float64() is drawn from {0, 1/JitterSteps, ..., (JitterSteps-1)/JitterSteps}
JitterSteps == 4
\* arguments of a direct call of CalculateBackoff
AttemptBound == 3
RetryAfterBound == 4

\* limiter.Config (limiter.go:35-39), fixed at small values
RequestsPerMinute == 1
MaxConcurrentRead == 2
MaxConcurrentWrite == 1

\* the requests that pass through one Client at a time
NumRequests == 2
\* Client.retryConfig.MaxRetries in -1..ClientMaxRetries
ClientMaxRetries == 1

\* the server answers MaxPages requests, each with at most MaxPageLen items
MaxPages == 3
MaxPageLen == 2

\* GetAllUsers / GetAllProjects return up to MaxItems items, or ManyItems
MaxItems == 2

Callers == 1..NumCallers

(***************************************************************************)
(* pkg/ratelimit                                                           *)
(***************************************************************************)
RequestTypeRead == "read"
RequestTypeWrite == "write"
RequestTypes == {RequestTypeRead, RequestTypeWrite}

\* NewLimiter: the bucket's burst is cfg.RequestsPerMinute and it starts full;
\* the counters start at their zero values.
Burst == RequestsPerMinute

LimiterInit ==
    /\ currentReads = 0
    /\ currentWrites = 0
    /\ tokens = Burst
    /\ pc = [c \in Callers |-> "idle"]
    /\ reqType = [c \in Callers |-> RequestTypeRead]
    /\ ctxDone = [c \in Callers |-> FALSE]
    /\ polled = [c \in Callers |-> FALSE]
    /\ incs = [c \in Callers |-> 0]
    /\ RetryIdle
    /\ BackoffIdle
    /\ ClientIdle
    /\ PagerIdle
    /\ ExtractIdle
    /\ OthersIdle

\* The in-flight counter and the ceiling of a class.
Counter(t) == IF t = RequestTypeRead THEN currentReads ELSE currentWrites
Ceiling(t) == IF t = RequestTypeRead THEN MaxConcurrentRead ELSE MaxConcurrentWrite

\* A caller enters Acquire(ctx, t); the ctx may already be done.
CallAcquire(c, t, done) ==
    /\ pc[c] \in {"idle", "failed"}
    /\ pc' = [pc EXCEPT ![c] = "wait_token"]
    /\ reqType' = [reqType EXCEPT ![c] = t]
    /\ ctxDone' = [ctxDone EXCEPT ![c] = done]
    /\ polled' = [polled EXCEPT ![c] = FALSE]
    /\ incs' = [incs EXCEPT ![c] = 0]
    /\ UNCHANGED <<currentReads, currentWrites, tokens>>
    /\ UNCHANGED notLimiterVars

\* The ctx of a call in progress is cancelled (or its deadline passes).
Cancel(c) ==
    /\ pc[c] \in {"wait_token", "try_slot", "poll"}
    /\ ~ctxDone[c]
    /\ ctxDone' = [ctxDone EXCEPT ![c] = TRUE]
    /\ UNCHANGED <<currentReads, currentWrites, tokens, pc, reqType, polled, incs>>
    /\ UNCHANGED notLimiterVars

\* The token bucket refills at its rate, up to its burst.
Refill ==
    /\ tokens < Burst
    /\ tokens' = tokens + 1
    /\ UNCHANGED <<currentReads, currentWrites, pc, reqType, ctxDone, polled, incs>>
    /\ UNCHANGED notLimiterVars

WaitToken_NoBucket(c) ==
    /\ pc[c] = "wait_token"
    /\ ~ctxDone[c]
    /\ pc' = [pc EXCEPT ![c] = "try_slot"]
    /\ UNCHANGED <<currentReads, currentWrites, tokens, reqType, ctxDone, polled, incs>>
    /\ UNCHANGED notLimiterVars

\* l.rateLimiter.Wait(ctx) returns nil: a token was granted.
WaitToken(c) ==
    /\ pc[c] = "wait_token"
    /\ ~ctxDone[c]
    /\ tokens > 0
    /\ tokens' = tokens - 1
    /\ pc' = [pc EXCEPT ![c] = "try_slot"]
    /\ UNCHANGED <<currentReads, currentWrites, reqType, ctxDone, polled, incs>>
    /\ UNCHANGED notLimiterVars

\* l.rateLimiter.Wait(ctx) returns the ctx's error, and Acquire returns it.
WaitTokenCancelled(c) ==
    /\ pc[c] = "wait_token"
    /\ ctxDone[c]
    /\ pc' = [pc EXCEPT ![c] = "failed"]
    /\ reqType' = [reqType EXCEPT ![c] = RequestTypeRead]
    /\ UNCHANGED <<currentReads, currentWrites, tokens, ctxDone, polled, incs>>
    /\ UNCHANGED notLimiterVars

CanProceed_OffByOne(cur, max) == cur <= max

\* if l.currentReads < l.maxConcurrentRead
CanProceed(cur, max) == cur < max

TrySlot_IncrementFirst(c) ==
    /\ pc[c] = "try_slot"
    /\ currentReads' = IF reqType[c] = RequestTypeRead THEN currentReads + 1 ELSE currentReads
    /\ currentWrites' = IF reqType[c] = RequestTypeWrite THEN currentWrites + 1 ELSE currentWrites
    /\ incs' = [incs EXCEPT ![c] = @ + 1]
    /\ IF Counter(reqType[c]) < Ceiling(reqType[c])
       THEN /\ pc' = [pc EXCEPT ![c] = "holding"]
            /\ ctxDone' = [ctxDone EXCEPT ![c] = FALSE]
            /\ UNCHANGED polled
       ELSE /\ pc' = [pc EXCEPT ![c] = "poll"]
            /\ polled' = [polled EXCEPT ![c] = TRUE]
            /\ UNCHANGED ctxDone
    /\ UNCHANGED <<tokens, reqType>>
    /\ UNCHANGED notLimiterVars

\* One pass of the locked section of the loop: test the class's counter and
\* increment it, then return nil, or go to the select.
TrySlot(c) ==
    /\ pc[c] = "try_slot"
    /\ IF CanProceed(Counter(reqType[c]), Ceiling(reqType[c]))
       THEN /\ currentReads' = IF reqType[c] = RequestTypeRead THEN currentReads + 1 ELSE currentReads
            /\ currentWrites' = IF reqType[c] = RequestTypeWrite THEN currentWrites + 1 ELSE currentWrites
            /\ incs' = [incs EXCEPT ![c] = @ + 1]
            /\ pc' = [pc EXCEPT ![c] = "holding"]
            /\ ctxDone' = [ctxDone EXCEPT ![c] = FALSE]
            /\ UNCHANGED polled
       ELSE /\ pc' = [pc EXCEPT ![c] = "poll"]
            /\ polled' = [polled EXCEPT ![c] = TRUE]
            /\ UNCHANGED <<currentReads, currentWrites, incs, ctxDone>>
    /\ UNCHANGED <<tokens, reqType>>
    /\ UNCHANGED notLimiterVars

\* select: time.After(100ms) fires before ctx.Done(): continue the loop.
PollTimer(c) ==
    /\ pc[c] = "poll"
    /\ ~ctxDone[c]
    /\ pc' = [pc EXCEPT ![c] = "try_slot"]
    /\ UNCHANGED <<currentReads, currentWrites, tokens, reqType, ctxDone, polled, incs>>
    /\ UNCHANGED notLimiterVars

PollCancelled_GivesSlotBack(c) ==
    /\ pc[c] = "poll"
    /\ ctxDone[c]
    /\ pc' = [pc EXCEPT ![c] = "failed"]
    /\ currentReads' = IF reqType[c] = RequestTypeRead /\ currentReads > 0
                       THEN currentReads - 1 ELSE currentReads
    /\ currentWrites' = IF reqType[c] = RequestTypeWrite /\ currentWrites > 0
                        THEN currentWrites - 1 ELSE currentWrites
    /\ reqType' = [reqType EXCEPT ![c] = RequestTypeRead]
    /\ UNCHANGED <<tokens, ctxDone, polled, incs>>
    /\ UNCHANGED notLimiterVars

\* select: ctx.Done() is ready: return ctx.Err().
PollCancelled(c) ==
    /\ pc[c] = "poll"
    /\ ctxDone[c]
    /\ pc' = [pc EXCEPT ![c] = "failed"]
    /\ reqType' = [reqType EXCEPT ![c] = RequestTypeRead]
    /\ UNCHANGED <<currentReads, currentWrites, tokens, ctxDone, polled, incs>>
    /\ UNCHANGED notLimiterVars

ReleaseCount_NoFloor(cur) == cur - 1

\* if l.currentReads > 0 { l.currentReads-- }
ReleaseCount(cur) == IF cur > 0 THEN cur - 1 ELSE cur

ReleaseEffect_BothClasses(t) ==
    /\ currentReads' = ReleaseCount(currentReads)
    /\ currentWrites' = ReleaseCount(currentWrites)
    /\ UNCHANGED tokens

\* Limiter.Release(t) on the Limiter's fields.
ReleaseEffect(t) ==
    /\ currentReads' = IF t = RequestTypeRead THEN ReleaseCount(currentReads) ELSE currentReads
    /\ currentWrites' = IF t = RequestTypeWrite THEN ReleaseCount(currentWrites) ELSE currentWrites
    /\ UNCHANGED tokens

\* The holder of a slot calls Release with the class it acquired.
Release(c) ==
    /\ pc[c] = "holding"
    /\ ReleaseEffect(reqType[c])
    /\ pc' = [pc EXCEPT ![c] = "released"]
    /\ polled' = [polled EXCEPT ![c] = FALSE]
    /\ UNCHANGED <<reqType, ctxDone, incs>>
    /\ UNCHANGED notLimiterVars

\* A caller that holds nothing calls Release(t) all the same.
RedundantRelease(c, t) ==
    /\ pc[c] = "idle"
    /\ ReleaseEffect(t)
    /\ pc' = [pc EXCEPT ![c] = "released"]
    /\ reqType' = [reqType EXCEPT ![c] = t]
    /\ UNCHANGED <<ctxDone, polled, incs>>
    /\ UNCHANGED notLimiterVars

\* The caller goes on after Release returned.
Finish(c) ==
    /\ pc[c] = "released"
    /\ pc' = [pc EXCEPT ![c] = "idle"]
    /\ reqType' = [reqType EXCEPT ![c] = RequestTypeRead]
    /\ polled' = [polled EXCEPT ![c] = FALSE]
    /\ incs' = [incs EXCEPT ![c] = 0]
    /\ UNCHANGED <<currentReads, currentWrites, tokens, ctxDone>>
    /\ UNCHANGED notLimiterVars

\* Callers that release only what they acquired.
PairedNext ==
    \/ \E c \in Callers, t \in RequestTypes, d \in BOOLEAN : CallAcquire(c, t, d)
    \/ \E c \in Callers : Cancel(c)
    \/ Refill
    \/ \E c \in Callers : WaitToken(c)
    \/ \E c \in Callers : WaitTokenCancelled(c)
    \/ \E c \in Callers : TrySlot(c)
    \/ \E c \in Callers : PollTimer(c)
    \/ \E c \in Callers : PollCancelled(c)
    \/ \E c \in Callers : Release(c)
    \/ \E c \in Callers : Finish(c)

\* Any interleaving of Acquire and Release, redundant Release calls included.
LimiterNext ==
    \/ PairedNext
    \/ \E c \in Callers, t \in RequestTypes : RedundantRelease(c, t)

SpecLimiter == LimiterInit /\ [][LimiterNext]_vars

SpecPaired == LimiterInit /\ [][PairedNext]_vars


(***************************************************************************)
(* Properties of the Limiter                                               *)
(***************************************************************************)
CounterNext(t) == IF t = RequestTypeRead THEN currentReads' ELSE currentWrites'
OtherType(t) == IF t = RequestTypeRead THEN RequestTypeWrite ELSE RequestTypeRead

\* The callers other than c that hold a slot of class t.
HoldersBut(c, t) == {d \in Callers \ {c} : pc[d] = "holding" /\ reqType[d] = t}

\* Caller c's Acquire(t) returns nil in this step.
Granted(c, t) == pc[c] = "try_slot" /\ reqType[c] = t /\ pc'[c] = "holding"

\* C1: under any interleaving of Acquire and Release calls, redundant Release
\* calls included, 0 <= currentReads <= maxConcurrentRead and
\* 0 <= currentWrites <= maxConcurrentWrite.
C1_CountersWithinCeilings ==
    /\ 0 <= currentReads /\ currentReads <= MaxConcurrentRead
    /\ 0 <= currentWrites /\ currentWrites <= MaxConcurrentWrite

\* The read ceiling is reached while a further read caller waits for a slot.
C1_Witness ==
    /\ currentReads = MaxConcurrentRead
    /\ \E c \in Callers : pc[c] = "poll" /\ reqType[c] = RequestTypeRead

\* C2: while a class's counter is at its ceiling no Acquire of that class
\* returns nil; only a holder's Release takes the counter down, by one; and a
\* step lets one caller succeed, takes one slot and leaves every other
\* caller where it was.
C2_FullBlocksUntilRelease ==
    [][\A t \in RequestTypes :
          /\ \A c \in Callers :
                Granted(c, t) =>
                    /\ Counter(t) < Ceiling(t)
                    /\ CounterNext(t) = Counter(t) + 1
                    /\ \A d \in Callers \ {c} : pc'[d] = pc[d]
          /\ CounterNext(t) < Counter(t) =>
                /\ CounterNext(t) = Counter(t) - 1
                /\ \E c \in Callers :
                      pc[c] = "holding" /\ reqType[c] = t /\ pc'[c] = "released"
          /\ CounterNext(t) > Counter(t) => \E c \in Callers : Granted(c, t)
      ]_vars

\* A caller that had to wait holds a slot of a class whose ceiling is reached
\* again, while another caller of the class is still waiting.
C2_Witness ==
    \E t \in RequestTypes : \E c, d \in Callers :
        /\ c /= d
        /\ pc[c] = "holding" /\ reqType[c] = t /\ polled[c]
        /\ pc[d] = "poll" /\ reqType[d] = t
        /\ Counter(t) = Ceiling(t)

\* C3: when Acquire has returned the cancellation error, the call has
\* incremented no counter, and each counter is the number of slots the other
\* callers hold.
C3_CancelledLeavesNoIncrement ==
    \A c \in Callers :
        pc[c] = "failed" =>
            /\ incs[c] = 0
            /\ \A t \in RequestTypes : Counter(t) = Cardinality(HoldersBut(c, t))

\* One call was cancelled in the token wait and one in the slot-polling loop,
\* while another caller holds a slot.
C3_Witness ==
    \E c, d \in Callers :
        /\ pc[c] = "failed" /\ polled[c]
        /\ pc[d] = "failed" /\ ~polled[d]
        /\ currentReads + currentWrites > 0

\* C4: a call whose ctx is done while it waits for a token or is in the
\* slot-polling loop never returns nil.
C4_CancelledNeverSucceeds ==
    [][\A c \in Callers :
          (/\ ctxDone[c]
           /\ \/ pc[c] \in {"wait_token", "poll"}
              \/ pc[c] = "try_slot" /\ polled[c])
          => pc'[c] /= "holding"
      ]_vars

\* C5: Release(t) at a counter of 0 changes nothing, otherwise it takes the
\* counter of t down by one; the other counter and the bucket stay as they are.
C5_ReleaseFrame ==
    [][\A c \in Callers :
          (pc[c] /= "released" /\ pc'[c] = "released") =>
              LET t == reqType'[c] IN
              /\ Counter(t) = 0 => CounterNext(t) = 0
              /\ Counter(t) > 0 => CounterNext(t) = Counter(t) - 1
              /\ CounterNext(OtherType(t)) = Counter(OtherType(t))
              /\ tokens' = tokens
      ]_vars

\* Every caller has called Release while holding nothing: with no holder the
\* counters were 0, so each of these calls was a no-op.
C5_Witness ==
    /\ \A c \in Callers : pc[c] = "released" /\ incs[c] = 0
    /\ \E c, d \in Callers : reqType[c] /= reqType[d]
    /\ currentReads = 0 /\ currentWrites = 0


(***************************************************************************)
(* pkg/retry                                                               *)
(***************************************************************************)
\* time.Second, in nanoseconds, the unit of time.Duration
Second == 1000000000

\* The retry.Config values of the model.
Policies ==
    [MaxRetries : -1..MaxRetriesBound,
     InitialBackoff : 0..InitialBackoffBound,
     MaxBackoff : 0..MaxBackoffBound]

\* The Retry-After header of a response: absent, a number of seconds, an
\* HTTP date (with the time left until it, which is not positive for a date
\* in the past), or text that is neither.
RetryAfterHeaders ==
    {[kind |-> "absent"], [kind |-> "invalid"]}
    \cup [kind : {"seconds"}, n : {-1, 0, 1}]
    \cup [kind : {"date"}, until : {-Second, 2 * Second}]

\* The responses fn can return: a status, a Retry-After header, and a Body
\* that may be nil (as in the package's tests).
HTTPStatuses == {200, 404, 429, 503}
Responses ==
    [nil : {FALSE}, StatusCode : HTTPStatuses, RetryAfter : RetryAfterHeaders,
     Body : BOOLEAN]

ErrTransport == [kind |-> "transport"]
ErrCtx == [kind |-> "ctx"]
\* fmt.Errorf("max retries exceeded: %w", err)
ErrMaxRetries(cause) == [kind |-> "max_retries", cause |-> cause]
\* fmt.Errorf("max retries exceeded, last status: %d", resp.StatusCode)
ErrMaxRetriesStatus(code) == [kind |-> "max_retries_status", status |-> code]

\* What one call of fn returns: a response and a nil error, or a nil
\* response and a transport error.
Outcomes ==
    [resp : Responses, err : {NilErr}] \cup [resp : {NilResp}, err : {ErrTransport}]

ShouldRetry_ServerErrorsOnly(r, e) ==
    IF e /= NilErr THEN TRUE
    ELSE r.StatusCode >= 500 /\ r.StatusCode < 600

ShouldRetry_Above500(r, e) ==
    IF e /= NilErr THEN TRUE
    ELSE IF r.StatusCode = 429 THEN TRUE
    ELSE IF r.StatusCode > 500 /\ r.StatusCode < 600 THEN TRUE
    ELSE FALSE

\* ShouldRetry(resp, err)
ShouldRetry(r, e) ==
    IF e /= NilErr THEN TRUE
    ELSE IF r.StatusCode = 429 THEN TRUE
    ELSE IF r.StatusCode >= 500 /\ r.StatusCode < 600 THEN TRUE
    ELSE FALSE

\* GetRetryAfter(resp)
GetRetryAfter(r) ==
    IF r = NilResp THEN 0
    ELSE IF r.RetryAfter.kind = "absent" THEN 0
    ELSE IF r.RetryAfter.kind = "seconds" THEN r.RetryAfter.n * Second
    ELSE IF r.RetryAfter.kind = "date" /\ r.RetryAfter.until > 0 THEN r.RetryAfter.until
    ELSE 0

Pow2[n \in Nat] == IF n = 0 THEN 1 ELSE 2 * Pow2[n - 1]

CalculateBackoff_NoCap(att, cfg, retryAfter, draw) ==
    IF retryAfter > 0 THEN retryAfter
    ELSE LET base == cfg.InitialBackoff * Pow2[att]
             den == 4 * JitterSteps
             num == base * den + base * (2 * draw - JitterSteps)
         IN  num \div den

CalculateBackoff_ClampHint(att, cfg, retryAfter, draw) ==
    LET base == cfg.InitialBackoff * Pow2[att]
        den == 4 * JitterSteps
        num == base * den + base * (2 * draw - JitterSteps)
        d == IF retryAfter > 0 THEN retryAfter ELSE num \div den
    IN  IF d > cfg.MaxBackoff THEN cfg.MaxBackoff ELSE d

\* CalculateBackoff(attempt, cfg, retryAfter), with rand.Float64() returning
\* draw / JitterSteps. The float64 value backoff + jitter is the rational
\* num / den:  base + base * 0.25 * (2 * draw / JitterSteps - 1).
CalculateBackoff(att, cfg, retryAfter, draw) ==
    IF retryAfter > 0 THEN retryAfter
    ELSE LET base == cfg.InitialBackoff * Pow2[att]
             den == 4 * JitterSteps
             num == base * den + base * (2 * draw - JitterSteps)
         IN  IF num > cfg.MaxBackoff * den
             THEN cfg.MaxBackoff
             ELSE num \div den

Draws == 0..(JitterSteps - 1)

\* ---- retry.Do ----
RetryInit ==
    /\ LimiterIdle
    /\ BackoffIdle
    /\ ClientIdle
    /\ PagerIdle
    /\ ExtractIdle
    /\ OthersIdle
    /\ rCfg \in Policies
    /\ rPc = "loop"
    /\ attempt = 0
    /\ resp = NilResp
    /\ err = NilErr
    /\ backoff = 0
    /\ rCtxDone \in BOOLEAN
    /\ retResp = NilResp
    /\ retErr = NilErr
    /\ calls = 0
    /\ retryables = 0
    /\ closed = <<>>

\* return resp, err
Return(r, e) ==
    /\ rPc' = "done"
    /\ retResp' = r
    /\ retErr' = e

\* The ctx of the call is cancelled while Do runs.
CancelDo ==
    /\ rPc \in {"loop", "wait"}
    /\ ~rCtxDone
    /\ rCtxDone' = TRUE
    /\ UNCHANGED <<rCfg, rPc, attempt, resp, err, backoff, retResp, retErr,
                   calls, retryables, closed>>
    /\ UNCHANGED notRetryVars

\* An outcome of fn that is a transport error, a 429 or a 5xx.
RetryableOutcome(r, e) ==
    \/ e /= NilErr
    \/ r.StatusCode = 429
    \/ r.StatusCode \in 500..599

LastAttempt_OneEarly(att, cfg) == att + 1 >= cfg.MaxRetries

\* if attempt == cfg.MaxRetries
LastAttempt(att, cfg) == att = cfg.MaxRetries

Classify_CloseFirst(o, draw) ==
    /\ closed' = IF o.resp /= NilResp /\ o.resp.Body
                 THEN Append(closed, calls + 1) ELSE closed
    /\ IF ~ShouldRetry(o.resp, o.err)
       THEN /\ Return(o.resp, o.err)
            /\ UNCHANGED backoff
       ELSE IF LastAttempt(attempt, rCfg)
       THEN /\ IF o.err /= NilErr
               THEN Return(NilResp, ErrMaxRetries(o.err))
               ELSE Return(o.resp, ErrMaxRetriesStatus(o.resp.StatusCode))
            /\ UNCHANGED backoff
       ELSE /\ backoff' = CalculateBackoff(attempt, rCfg, GetRetryAfter(o.resp), draw)
            /\ rPc' = "wait"
            /\ UNCHANGED <<retResp, retErr>>

Classify_RetryAll(o, draw) ==
    /\ IF LastAttempt(attempt, rCfg)
       THEN /\ IF o.err /= NilErr
               THEN Return(NilResp, ErrMaxRetries(o.err))
               ELSE Return(o.resp, ErrMaxRetriesStatus(o.resp.StatusCode))
            /\ UNCHANGED <<backoff, closed>>
       ELSE /\ backoff' = CalculateBackoff(attempt, rCfg, GetRetryAfter(o.resp), draw)
            /\ closed' = IF o.resp /= NilResp /\ o.resp.Body
                         THEN Append(closed, calls + 1) ELSE closed
            /\ rPc' = "wait"
            /\ UNCHANGED <<retResp, retErr>>

\* The body of the loop after fn has returned o, down to the select.
Classify(o, draw) ==
    IF ~ShouldRetry(o.resp, o.err)
    THEN /\ Return(o.resp, o.err)
         /\ UNCHANGED <<backoff, closed>>
    ELSE /\ IF LastAttempt(attempt, rCfg)
            THEN /\ IF o.err /= NilErr
                    THEN Return(NilResp, ErrMaxRetries(o.err))
                    ELSE Return(o.resp, ErrMaxRetriesStatus(o.resp.StatusCode))
                 /\ UNCHANGED <<backoff, closed>>
            ELSE /\ backoff' = CalculateBackoff(attempt, rCfg, GetRetryAfter(o.resp), draw)
                 /\ closed' = IF o.resp /= NilResp /\ o.resp.Body
                              THEN Append(closed, calls + 1) ELSE closed
                 /\ rPc' = "wait"
                 /\ UNCHANGED <<retResp, retErr>>

\* One pass of the loop body: fn is called and returns o.
Attempt(o, draw) ==
    /\ rPc = "loop"
    /\ attempt <= rCfg.MaxRetries
    /\ calls' = calls + 1
    /\ resp' = o.resp
    /\ err' = o.err
    /\ retryables' = IF RetryableOutcome(o.resp, o.err) THEN retryables + 1 ELSE retryables
    /\ Classify(o, draw)
    /\ UNCHANGED <<rCfg, attempt, rCtxDone>>
    /\ UNCHANGED notRetryVars

\* The loop condition fails: return resp, err after the loop.
LoopExit ==
    /\ rPc = "loop"
    /\ attempt > rCfg.MaxRetries
    /\ Return(resp, err)
    /\ UNCHANGED <<rCfg, attempt, resp, err, backoff, rCtxDone, calls, retryables, closed>>
    /\ UNCHANGED notRetryVars

\* Whether the select can take case <-time.After(backoff): the timer fires
\* before ctx is done, or its duration is not positive, so that it is ready
\* when the select is entered.
TimerReady == ~rCtxDone \/ backoff <= 0

WaitTimer_NewToken ==
    /\ rPc = "wait"
    /\ TimerReady
    /\ tokens > 0
    /\ tokens' = tokens - 1
    /\ rPc' = "loop"
    /\ attempt' = attempt + 1
    /\ UNCHANGED <<rCfg, resp, err, backoff, rCtxDone, retResp, retErr, calls,
                   retryables, closed>>
    /\ UNCHANGED <<currentReads, currentWrites, pc, reqType, ctxDone, polled, incs>>
    /\ UNCHANGED <<backoffVars, clientVars, pagerVars, extractVars,
                   bodyVars, bucketVars, schedVars, shouldVars>>

\* select: time.After(backoff) is taken; attempt++.
WaitTimer ==
    /\ rPc = "wait"
    /\ TimerReady
    /\ rPc' = "loop"
    /\ attempt' = attempt + 1
    /\ UNCHANGED <<rCfg, resp, err, backoff, rCtxDone, retResp, retErr, calls,
                   retryables, closed>>
    /\ UNCHANGED notRetryVars

\* select: ctx.Done() is taken: return nil, ctx.Err().
WaitCancelled ==
    /\ rPc = "wait"
    /\ rCtxDone
    /\ Return(NilResp, ErrCtx)
    /\ UNCHANGED <<rCfg, attempt, resp, err, backoff, rCtxDone, calls, retryables, closed>>
    /\ UNCHANGED notRetryVars

RetryNext ==
    \/ CancelDo
    \/ \E o \in Outcomes, draw \in Draws : Attempt(o, draw)
    \/ LoopExit
    \/ WaitTimer
    \/ WaitCancelled

SpecRetry == RetryInit /\ [][RetryNext]_vars

\* ---- a direct call of CalculateBackoff ----
BackoffInit ==
    /\ LimiterIdle
    /\ RetryIdle
    /\ ClientIdle
    /\ PagerIdle
    /\ ExtractIdle
    /\ OthersIdle
    /\ bIn \in [attempt : 0..AttemptBound, cfg : Policies,
                retryAfter : 0..RetryAfterBound, draw : Draws]
    /\ bOut = [returned |-> FALSE, d |-> 0]

CallCalculateBackoff ==
    /\ ~bOut.returned
    /\ bOut' = [returned |-> TRUE,
                d |-> CalculateBackoff(bIn.attempt, bIn.cfg, bIn.retryAfter, bIn.draw)]
    /\ UNCHANGED bIn
    /\ UNCHANGED notBackoffVars

BackoffNext == CallCalculateBackoff

SpecBackoff == BackoffInit /\ [][BackoffNext]_vars


(***************************************************************************)
(* Properties of retry.Do and retry.CalculateBackoff                       *)
(***************************************************************************)
MaxRetriesExceeded(e) == e.kind \in {"max_retries", "max_retries_status"}

\* C6: when Do has returned, ctx was never cancelled, maxRetries >= 0 and
\* every outcome of fn was retryable, fn was called maxRetries + 1 times and
\* the error returned is a 'max retries exceeded' error.
C6_AlwaysRetryableExhausts ==
    (/\ rPc = "done"
     /\ ~rCtxDone
     /\ rCfg.MaxRetries >= 0
     /\ retryables = calls)
    => /\ calls = rCfg.MaxRetries + 1
       /\ MaxRetriesExceeded(retErr)

\* Do has given up after maxRetries + 1 > 1 calls that ended in a transport
\* error, and returns no response with it.
C6_Witness ==
    /\ rPc = "done"
    /\ ~rCtxDone
    /\ rCfg.MaxRetries = MaxRetriesBound
    /\ retryables = calls
    /\ calls = MaxRetriesBound + 1
    /\ retErr = ErrMaxRetries(ErrTransport)
    /\ retResp = NilResp

\* C7: at most one outcome of fn is terminal; once there is one it is the
\* last outcome, Do has returned exactly that response and error, and fn is
\* not called again (a terminal first outcome: one call).
C7_TerminalEndsDo ==
    /\ calls - retryables \in {0, 1}
    /\ calls - retryables = 1 =>
          /\ ~RetryableOutcome(resp, err)
          /\ rPc = "done"
          /\ retResp = resp
          /\ retErr = err

\* A 404 after at least one retry, with attempts to spare, has ended Do.
C7_Witness ==
    /\ rPc = "done"
    /\ retryables > 0
    /\ calls = retryables + 1
    /\ attempt < rCfg.MaxRetries
    /\ resp /= NilResp /\ resp.StatusCode = 404
    /\ retResp = resp /\ retErr = NilErr

\* C8: with no cancellation, Do returns only after a terminal outcome or
\* after maxRetries + 1 calls; so k <= maxRetries retryable outcomes followed
\* by a 200 end in that response, a nil error and k + 1 calls.
C8_SuccessAfterRetries ==
    (rPc = "done" /\ ~rCtxDone /\ calls > 0) =>
        /\ RetryableOutcome(resp, err) => calls = rCfg.MaxRetries + 1
        /\ (~RetryableOutcome(resp, err) /\ resp.StatusCode = 200) =>
              /\ retResp = resp
              /\ retErr = NilErr
              /\ calls = retryables + 1
              /\ retryables <= rCfg.MaxRetries

\* The success came at the last allowed attempt: k = maxRetries > 0.
C8_Witness ==
    /\ rPc = "done"
    /\ ~rCtxDone
    /\ rCfg.MaxRetries = MaxRetriesBound
    /\ retryables = MaxRetriesBound
    /\ calls = MaxRetriesBound + 1
    /\ resp /= NilResp /\ resp.StatusCode = 200
    /\ retResp = resp /\ retErr = NilErr

\* C9: from a wait during which ctx is done, Do's next step returns
\* ctx.Err() with a nil response and calls fn no more.
C9_CancelledWaitReturnsCtxErr ==
    [][(rPc = "wait" /\ rCtxDone) =>
          /\ rPc' = "done"
          /\ retErr' = ErrCtx
          /\ retResp' = NilResp
          /\ calls' = calls
      ]_vars

\* C10: CalculateBackoff with retryAfter > 0 returns retryAfter.
C10_RetryAfterReturnedAsIs ==
    (bOut.returned /\ bIn.retryAfter > 0) => bOut.d = bIn.retryAfter

\* A hint above maxBackoff, at a later attempt, is returned as it is.
C10_Witness ==
    /\ bOut.returned
    /\ bIn.retryAfter > bIn.cfg.MaxBackoff
    /\ bIn.cfg.MaxBackoff > 0
    /\ bIn.attempt > 0
    /\ bOut.d = bIn.retryAfter

\* The smaller of two numbers.
Min(a, b) == IF a <= b THEN a ELSE b

\* initialBackoff * 2^attempt of the call, in nanoseconds.
C11_Base == bIn.cfg.InitialBackoff * Pow2[bIn.attempt]

\* C11 as stated: with retryAfter = 0 the duration d returned satisfies
\* min(0.75 * base, maxBackoff) <= d <= min(1.25 * base, maxBackoff), where
\* base = initialBackoff * 2^attempt (both sides multiplied by 4).
C11_BackoffWithinRealBounds ==
    (bOut.returned /\ bIn.retryAfter = 0) =>
        /\ Min(3 * C11_Base, 4 * bIn.cfg.MaxBackoff) <= 4 * bOut.d
        /\ 4 * bOut.d <= Min(5 * C11_Base, 4 * bIn.cfg.MaxBackoff)

\* C11 (amended): with retryAfter = 0 the duration d returned is a whole
\* number of nanoseconds with
\* floor(min(0.75 * base, maxBackoff)) <= d <= min(1.25 * base, maxBackoff);
\* so d never exceeds maxBackoff, and d = maxBackoff whenever
\* 0.75 * base >= maxBackoff.
C11_BackoffWithinBounds ==
    (bOut.returned /\ bIn.retryAfter = 0) =>
        /\ Min((3 * C11_Base) \div 4, bIn.cfg.MaxBackoff) <= bOut.d
        /\ 4 * bOut.d <= Min(5 * C11_Base, 4 * bIn.cfg.MaxBackoff)
        /\ bOut.d <= bIn.cfg.MaxBackoff
        /\ 3 * C11_Base >= 4 * bIn.cfg.MaxBackoff => bOut.d = bIn.cfg.MaxBackoff

\* A later attempt whose jittered backoff stays under the cap and differs
\* from the unjittered one.
C11_Witness ==
    /\ bOut.returned
    /\ bIn.retryAfter = 0
    /\ bIn.attempt > 0
    /\ bOut.d > 0
    /\ bOut.d < bIn.cfg.MaxBackoff
    /\ bOut.d /= C11_Base


(***************************************************************************)
(* pkg/client: Client.Do, one call under observation (request 1) next to   *)
(* the other requests that pass through the same Limiter                   *)
(***************************************************************************)
Requests == 1..NumRequests
ClientCaller == 1

\* req.Method
Methods == {"GET", "HEAD", "POST"}

\* reqType := RequestTypeRead; if the method is neither GET nor HEAD, RequestTypeWrite
ClassOf(method) ==
    IF method /= "GET" /\ method /= "HEAD" THEN RequestTypeWrite ELSE RequestTypeRead

\* fmt.Errorf("rate limiter error: %w", err)
ErrRateLimiter(cause) == [kind |-> "rate_limiter", cause |-> cause]

\* What c.httpClient.Do(reqClone) returns: a response with a body and a nil
\* error, or a nil response and an error; an error when the ctx the request
\* was cloned with is done. The Retry-After header is absent or 1 second.
ClientOutcomes ==
    {o \in Outcomes :
        \/ o.resp = NilResp
        \/ /\ o.resp.Body
           /\ o.resp.RetryAfter \in {[kind |-> "absent"], [kind |-> "seconds", n |-> 1]}}

\* The values of Client.retryConfig.
ClientPolicies ==
    [MaxRetries : -1..ClientMaxRetries,
     InitialBackoff : 0..1,
     MaxBackoff : {1}]

\* client.New, and a call of Do about to start.
ClientInit ==
    /\ currentReads = 0
    /\ currentWrites = 0
    /\ tokens = Burst
    /\ pc = [c \in Requests |-> "idle"]
    /\ reqType = [c \in Requests |-> RequestTypeRead]
    /\ ctxDone = [c \in Requests |-> FALSE]
    /\ polled = [c \in Requests |-> FALSE]
    /\ incs = [c \in Requests |-> 0]
    /\ RetryIdle
    /\ BackoffIdle
    /\ PagerIdle
    /\ ExtractIdle
    /\ OthersIdle
    /\ retryConfig \in ClientPolicies
    /\ cPc = "start"
    /\ cMethod \in Methods
    /\ cCtxDone \in BOOLEAN
    /\ cRetResp = NilResp
    /\ cRetErr = NilErr
    /\ releases = 0

\* Do classifies the request and enters c.rateLimiter.Acquire(ctx, reqType).
ClientDo ==
    /\ cPc = "start"
    /\ cPc' = "acquire"
    /\ pc' = [pc EXCEPT ![ClientCaller] = "wait_token"]
    /\ reqType' = [reqType EXCEPT ![ClientCaller] = ClassOf(cMethod)]
    /\ ctxDone' = [ctxDone EXCEPT ![ClientCaller] = cCtxDone]
    /\ UNCHANGED <<currentReads, currentWrites, tokens, polled, incs>>
    /\ UNCHANGED <<retryConfig, cMethod, cCtxDone, cRetResp, cRetErr, releases>>
    /\ UNCHANGED <<retryVars, notClientVars>>

\* The ctx of the call is cancelled: Acquire and retry.Do were given this ctx.
ClientCancel ==
    /\ cPc \in {"acquire", "retry"}
    /\ ~cCtxDone
    /\ cCtxDone' = TRUE
    /\ ctxDone' = IF pc[ClientCaller] \in {"wait_token", "try_slot", "poll"}
                  THEN [ctxDone EXCEPT ![ClientCaller] = TRUE]
                  ELSE ctxDone
    /\ rCtxDone' = IF rPc \in {"loop", "wait"} THEN TRUE ELSE rCtxDone
    /\ UNCHANGED <<currentReads, currentWrites, tokens, pc, reqType, polled, incs>>
    /\ UNCHANGED <<rCfg, rPc, attempt, resp, err, backoff, retResp, retErr,
                   calls, retryables, closed>>
    /\ UNCHANGED <<retryConfig, cPc, cMethod, cRetResp, cRetErr, releases>>
    /\ UNCHANGED notClientVars

ClientAcquireFailed_DeferFirst ==
    /\ cPc = "acquire"
    /\ pc[ClientCaller] = "failed"
    /\ cPc' = "returned"
    /\ cRetResp' = NilResp
    /\ cRetErr' = ErrRateLimiter(ErrCtx)
    /\ ReleaseEffect(ClassOf(cMethod))
    /\ releases' = releases + 1
    /\ UNCHANGED <<pc, reqType, ctxDone, polled, incs>>
    /\ UNCHANGED <<retryConfig, cMethod, cCtxDone>>
    /\ UNCHANGED <<retryVars, notClientVars>>

\* Acquire returned an error: return nil, "rate limiter error: ...".
ClientAcquireFailed ==
    /\ cPc = "acquire"
    /\ pc[ClientCaller] = "failed"
    /\ cPc' = "returned"
    /\ cRetResp' = NilResp
    /\ cRetErr' = ErrRateLimiter(ErrCtx)
    /\ UNCHANGED limiterVars
    /\ UNCHANGED <<retryConfig, cMethod, cCtxDone, releases>>
    /\ UNCHANGED <<retryVars, notClientVars>>

\* Acquire returned nil: the Release is deferred, the headers are set and
\* retry.Do(ctx, c.retryConfig, fn) is entered.
ClientRetryStart ==
    /\ cPc = "acquire"
    /\ pc[ClientCaller] = "holding"
    /\ cPc' = "retry"
    /\ rCfg' = retryConfig
    /\ rPc' = "loop"
    /\ attempt' = 0
    /\ resp' = NilResp
    /\ err' = NilErr
    /\ backoff' = 0
    /\ rCtxDone' = cCtxDone
    /\ retResp' = NilResp
    /\ retErr' = NilErr
    /\ calls' = 0
    /\ retryables' = 0
    /\ closed' = <<>>
    /\ UNCHANGED limiterVars
    /\ UNCHANGED <<retryConfig, cMethod, cCtxDone, cRetResp, cRetErr, releases>>
    /\ UNCHANGED notClientVars

\* One pass of the loop of retry.Do with fn = c.httpClient.Do(req.Clone(ctx)).
ClientAttempt(o, draw) ==
    /\ cPc = "retry"
    /\ rCtxDone => o.err /= NilErr
    /\ Attempt(o, draw)

ClientReturn_ReleaseOnSuccess ==
    /\ cPc = "retry"
    /\ rPc = "done"
    /\ cPc' = "returned"
    /\ cRetResp' = retResp
    /\ cRetErr' = retErr
    /\ IF retErr = NilErr
       THEN /\ ReleaseEffect(reqType[ClientCaller])
            /\ releases' = releases + 1
            /\ pc' = [pc EXCEPT ![ClientCaller] = "released"]
       ELSE UNCHANGED <<currentReads, currentWrites, tokens, releases, pc>>
    /\ UNCHANGED <<reqType, ctxDone, polled, incs>>
    /\ UNCHANGED <<retryConfig, cMethod, cCtxDone>>
    /\ UNCHANGED <<retryVars, notClientVars>>

\* retry.Do has returned: return resp, err, and the deferred
\* c.rateLimiter.Release(reqType) runs.
ClientReturn ==
    /\ cPc = "retry"
    /\ rPc = "done"
    /\ cPc' = "returned"
    /\ cRetResp' = retResp
    /\ cRetErr' = retErr
    /\ ReleaseEffect(reqType[ClientCaller])
    /\ releases' = releases + 1
    /\ pc' = [pc EXCEPT ![ClientCaller] = "released"]
    /\ UNCHANGED <<reqType, ctxDone, polled, incs>>
    /\ UNCHANGED <<retryConfig, cMethod, cCtxDone>>
    /\ UNCHANGED <<retryVars, notClientVars>>

\* The requests other than the one under observation; their ctx stays live.
OtherRequests == Requests \ {ClientCaller}

ClientNext ==
    \/ ClientDo
    \/ ClientCancel
    \/ ClientAcquireFailed
    \/ ClientRetryStart
    \/ \E o \in ClientOutcomes, draw \in Draws : ClientAttempt(o, draw)
    \/ cPc = "retry" /\ LoopExit
    \/ cPc = "retry" /\ WaitTimer
    \/ cPc = "retry" /\ WaitCancelled
    \/ ClientReturn
    \/ Refill
    \/ \E c \in Requests : WaitToken(c)
    \/ \E c \in Requests : WaitTokenCancelled(c)
    \/ \E c \in Requests : TrySlot(c)
    \/ \E c \in Requests : PollTimer(c)
    \/ \E c \in Requests : PollCancelled(c)
    \/ \E c \in OtherRequests, t \in RequestTypes : CallAcquire(c, t, FALSE)
    \/ \E c \in OtherRequests : Release(c)
    \/ \E c \in OtherRequests : Finish(c)

SpecClient == ClientInit /\ [][ClientNext]_vars


(***************************************************************************)
(* Properties of Client.Do                                                 *)
(***************************************************************************)
\* The other requests that hold a slot of class t.
OtherHolders(t) == {d \in OtherRequests : pc[d] = "holding" /\ reqType[d] = t}

\* C12: a call of Do whose Acquire succeeded holds its slot, with no Release,
\* for as long as retry.Do runs; it calls Release at most once; and when it
\* has returned, on whichever path retry.Do ended, it has called Release
\* once, after retry.Do returned, and each counter is the number of slots
\* the other requests hold.
C12_ReleaseOnceOnEveryExit ==
    /\ releases <= 1
    /\ cPc = "retry" => (releases = 0 /\ pc[ClientCaller] = "holding")
    /\ (cPc = "returned" /\ cRetErr.kind /= "rate_limiter") =>
          /\ releases = 1
          /\ rPc = "done"
          /\ cRetResp = retResp /\ cRetErr = retErr
          /\ \A t \in RequestTypes : Counter(t) = Cardinality(OtherHolders(t))

\* Do has returned the ctx error of a cancelled backoff wait and has
\* released its slot, while another request holds a slot of the same class.
C12_Witness ==
    /\ cPc = "returned"
    /\ cRetErr = ErrCtx
    /\ calls > 0
    /\ releases = 1
    /\ OtherHolders(ClassOf(cMethod)) /= {}

\* C13: when Do has returned because Acquire returned an error, it has
\* returned a nil response and 'rate limiter error' wrapping that error, fn
\* was never called, retry.Do was never entered, Release was not called, and
\* each counter is the number of slots the other requests hold.
C13_AcquireErrorNoCallNoRelease ==
    (cPc = "returned" /\ pc[ClientCaller] = "failed") =>
        /\ cRetResp = NilResp
        /\ cRetErr = ErrRateLimiter(ErrCtx)
        /\ calls = 0
        /\ rPc = "idle"
        /\ releases = 0
        /\ incs[ClientCaller] = 0
        /\ \A t \in RequestTypes : Counter(t) = Cardinality(OtherHolders(t))

\* Do was cancelled while it polled for a slot that another request holds,
\* and has returned the rate limiter error.
C13_Witness ==
    /\ cPc = "returned"
    /\ cRetErr = ErrRateLimiter(ErrCtx)
    /\ polled[ClientCaller]
    /\ Counter(ClassOf(cMethod)) = Ceiling(ClassOf(cMethod))
    /\ OtherHolders(ClassOf(cMethod)) /= {}


(***************************************************************************)
(* pkg/asana: GetAllUsers (users.go:63-88) and GetAllProjects              *)
(* (GetAllProjects, lines 44-69), against a server that answers the        *)
(* requests in turn, as the servers of the package's tests do              *)
(***************************************************************************)
PagerClasses == {"users", "projects"}

\* The next_page of a response: absent (nil), or with an offset, which may
\* be the empty string.
NextPages ==
    {[nil |-> TRUE], [nil |-> FALSE, Offset |-> ""], [nil |-> FALSE, Offset |-> "next"],
     [nil |-> FALSE, Offset |-> "after"]}

\* What the server answers to one request: a body that parses, with n items
\* and a next_page; a request that fails in c.httpClient.GetBody; or a body
\* that json.Unmarshal rejects.
ServerAnswers ==
    [kind : {"ok"}, n : 0..MaxPageLen, NextPage : NextPages]
    \cup {[kind |-> "get_failed"], [kind |-> "parse_failed"]}

\* The server has run out of answers: an empty body, which does not parse.
Answer(i) == IF i <= Len(pgPages) THEN pgPages[i] ELSE [kind |-> "parse_failed"]

\* The items of the i-th answer.
Data(i) == [j \in 1..Answer(i).n |-> [page |-> i, idx |-> j]]

\* fmt.Errorf("failed to get users: %w", err) and the like
ErrFetch(kind, class) == [kind |-> kind, class |-> class]

\* fmt.Errorf("failed to parse URL: %w", err)
ErrParseURL == [kind |-> "parse_url"]

\* append(allUsers, users...)
AppendAll(slice, items) == [nil |-> FALSE, items |-> slice.items \o items]

\* GetAllUsers / GetAllProjects is called.
PagerInit ==
    /\ LimiterIdle
    /\ RetryIdle
    /\ BackoffIdle
    /\ ClientIdle
    /\ ExtractIdle
    /\ OthersIdle
    /\ pgClass \in PagerClasses
    /\ pgPages \in [1..MaxPages -> ServerAnswers]
    /\ pgPc = "loop"
    /\ allItems = NilSlice
    /\ currentOffset = ""
    /\ fetches = 0
    /\ pgRet = [slice |-> NilSlice, err |-> NilErr]
    /\ pgSent = <<>>
    /\ pgURLParses \in BOOLEAN

PageEnds_CursorOnly(n, nextPage) ==
    nextPage.nil \/ nextPage.Offset = ""

\* len(users) == 0, or nextPage == nil || nextPage.Offset == ""
PageEnds(n, nextPage) ==
    \/ n = 0
    \/ nextPage.nil
    \/ nextPage.Offset = ""

FailedResult_Partial(all, e) == [slice |-> all, err |-> e]

\* return nil, err
FailedResult(all, e) == [slice |-> NilSlice, err |-> e]

\* if offset != "" { q.Set("offset", offset) }: the offset parameter of the URL
OffsetParam(offset) ==
    IF offset /= "" THEN [set |-> TRUE, value |-> offset] ELSE [set |-> FALSE]

NextOffset_Stale(cur, nextPage) == cur

\* currentOffset = nextPage.Offset
NextOffset(cur, nextPage) == nextPage.Offset

\* One pass of the for loop: GetUsers(ctx, limit, currentOffset) and what
\* follows it, down to the return when the loop is left.  GetUsers returns
\* at once, with no request made, when url.Parse rejects its URL; fetches
\* counts the calls of c.httpClient.GetBody.
FetchPage ==
    /\ pgPc = "loop"
    /\ IF ~pgURLParses
       THEN /\ pgRet' = FailedResult(allItems, ErrParseURL)
            /\ pgPc' = "done"
            /\ UNCHANGED <<fetches, pgSent, allItems, currentOffset>>
       ELSE /\ fetches' = fetches + 1
            /\ pgSent' = Append(pgSent, OffsetParam(currentOffset))
            /\ LET a == Answer(fetches + 1) IN
               IF a.kind /= "ok"
               THEN /\ pgRet' = FailedResult(allItems, ErrFetch(a.kind, pgClass))
                    /\ pgPc' = "done"
                    /\ UNCHANGED <<allItems, currentOffset>>
               ELSE LET all == IF a.n = 0 THEN allItems
                               ELSE AppendAll(allItems, Data(fetches + 1)) IN
                    /\ allItems' = all
                    /\ IF PageEnds(a.n, a.NextPage)
                       THEN /\ pgRet' = [slice |-> all, err |-> NilErr]
                            /\ pgPc' = "done"
                            /\ UNCHANGED currentOffset
                       ELSE /\ currentOffset' = NextOffset(currentOffset, a.NextPage)
                            /\ UNCHANGED <<pgRet, pgPc>>
    /\ UNCHANGED <<pgClass, pgPages, pgURLParses>>
    /\ UNCHANGED notPagerVars

PagerNext == FetchPage

SpecPager == PagerInit /\ [][PagerNext]_vars


(***************************************************************************)
(* Properties of GetAllUsers / GetAllProjects                              *)
(***************************************************************************)
\* The i-th answer is a page that ends the stream: no items, or no cursor.
LastPage(i) ==
    /\ Answer(i).kind = "ok"
    /\ \/ Answer(i).n = 0
       \/ Answer(i).NextPage.nil
       \/ Answer(i).NextPage.Offset = ""

\* The first answer that is not a page with items and a cursor.
StopIndex ==
    CHOOSE i \in 1..(MaxPages + 1) :
        /\ LastPage(i) \/ Answer(i).kind /= "ok"
        /\ \A j \in 1..(i - 1) : ~LastPage(j) /\ Answer(j).kind = "ok"

\* The items of the answers 1..n, in page order.
RECURSIVE Concat(_)
Concat(n) == IF n = 0 THEN <<>> ELSE Concat(n - 1) \o Data(n)

\* C14: never more than n fetches, where Pn is the first page with no items
\* or no cursor; and when the call has returned from a server whose pages
\* P1..Pn are served without failure, to a client whose URL parses, it has
\* returned a nil error and the items of P1..Pn in page order, after n
\* fetches.
C14_ReturnsConcatenationOfPages ==
    /\ fetches <= StopIndex
    /\ (pgPc = "done" /\ pgURLParses /\ LastPage(StopIndex)) =>
          /\ pgRet.err = NilErr
          /\ pgRet.slice.items = Concat(StopIndex)
          /\ fetches = StopIndex

\* The call has returned the items of three pages, the third of which has
\* no items and still carries a cursor; the server had no further answer.
C14_Witness ==
    /\ pgPc = "done"
    /\ pgRet.err = NilErr
    /\ fetches = 3
    /\ Answer(3).n = 0 /\ ~Answer(3).NextPage.nil /\ Answer(3).NextPage.Offset /= ""
    /\ Len(pgRet.slice.items) > 2

\* C15: when the call has returned from a server whose fetch k + 1 fails
\* after k >= 0 pages with items and a cursor, it has returned that error
\* and a nil sequence, after k + 1 fetches; and when its URL does not parse
\* it has returned that error and a nil sequence with no fetch made.
C15_FetchFailureIsFatal ==
    /\ (pgPc = "done" /\ pgURLParses /\ ~LastPage(StopIndex)) =>
          /\ pgRet.err = ErrFetch(Answer(StopIndex).kind, pgClass)
          /\ pgRet.slice = NilSlice
          /\ fetches = StopIndex
    /\ (pgPc = "done" /\ ~pgURLParses) =>
          /\ pgRet.err = ErrParseURL
          /\ pgRet.slice = NilSlice
          /\ fetches = 0

\* The third fetch failed after two pages with items, which were dropped.
C15_Witness ==
    /\ pgPc = "done"
    /\ pgRet.err /= NilErr
    /\ fetches = 3
    /\ Len(allItems.items) > 2
    /\ pgRet.slice = NilSlice


(***************************************************************************)
(* pkg/extractor: Extract (extractor.go:148-232): the goroutine that       *)
(* called it, the stats collector, the two workers and the coordination    *)
(* goroutine                                                               *)
(***************************************************************************)
UserWorker == "users"
ProjectWorker == "projects"
Workers == {UserWorker, ProjectWorker}

\* errChan := make(chan error, 2)
ErrChanCap == 2

\* results := make(chan func(*Stats), 100)
ResultsCap == 100

\* One item more than results holds.
ManyItems == ResultsCap + 1

\* What GetAllUsers / GetAllProjects returns to a worker: an error, or n items.
FetchResults ==
    {[failed |-> TRUE, n |-> 0]} \cup [failed : {FALSE}, n : (0..MaxItems) \cup {ManyItems}]

\* The other worker.
Other(w) == IF w = UserWorker THEN ProjectWorker ELSE UserWorker

\* The fetch results taken for worker w: ManyItems is taken for the projects
\* only, and with it the users' fetch fails or returns an empty list.
FetchResultsFor(w) ==
    {r \in FetchResults :
        /\ r.n > MaxItems => (w = ProjectWorker /\ wRes[Other(w)].n = 0)
        /\ wRes[Other(w)].n > MaxItems => r.n = 0}

\* The outcomes taken for a write of worker w: a nil error or an error when
\* the class has up to MaxItems items, a nil error when it has ManyItems.
WriteResultsFor(w) == IF wRes[w].n > MaxItems THEN {TRUE} ELSE BOOLEAN

\* fmt.Errorf("user API failure: %w", err), fmt.Errorf("project API failure: %w", err)
ErrAPI(w) == [kind |-> "api_failure", class |-> w]

\* The updates the workers send: func(s *Stats) { s.UsersExtracted++ },
\* { s.ProjectsExtracted++ } and { s.Errors++ }, named by the field.
SuccessUpdate_AlwaysUsers(w) == "UsersExtracted"

SuccessUpdate(w) == IF w = UserWorker THEN "UsersExtracted" ELSE "ProjectsExtracted"
ErrorUpdate == "Errors"

ApplyUpdate_ErrorsDropped(s, u) ==
    IF u = "Errors" THEN s ELSE [s EXCEPT ![u] = @ + 1]

\* update(stats)
ApplyUpdate(s, u) == [s EXCEPT ![u] = @ + 1]

\* stats.Duration = time.Since(startTime): some positive duration
Stamp(s) == [s EXCEPT !.Duration = 1]

\* Extract has made the channels, started the four goroutines (wg.Add(1)
\* before each worker) and is about to range over errChan.
ExtractInit ==
    /\ LimiterIdle
    /\ RetryIdle
    /\ BackoffIdle
    /\ ClientIdle
    /\ PagerIdle
    /\ OthersIdle
    /\ wPc = [w \in Workers |-> "fetch"]
    /\ wRes = [w \in Workers |-> [failed |-> FALSE, n |-> 0]]
    /\ wIdx = [w \in Workers |-> 0]
    /\ wUpd = [w \in Workers |-> "none"]
    /\ results = <<>>
    /\ resultsClosed = FALSE
    /\ errChan = <<>>
    /\ errChanClosed = FALSE
    /\ wg = Cardinality(Workers)
    /\ doneProcessing = FALSE
    /\ aggPc = "recv"
    /\ aggUpd = "none"
    /\ coPc = "wait"
    /\ mPc = "range"
    /\ stats = ZeroStats
    /\ exRet = [returned |-> FALSE, err |-> NilErr]
    /\ writeLog = [w \in Workers |-> <<>>]
    /\ sentLog = [w \in Workers |-> <<>>]
    /\ errLog = <<>>
    /\ exCtxDone \in BOOLEAN
    /\ wWhen = [w \in Workers |-> [early |-> FALSE, late |-> FALSE]]

\* ---- the workers ----
\* users, err := e.asanaClient.GetAllUsers(ctx), and the test of err.  A
\* fetch under a cancelled ctx fails: its first Acquire returns ctx's error.
WorkerFetch(w, r) ==
    /\ wPc[w] = "fetch"
    /\ exCtxDone => r.failed
    /\ wRes' = [wRes EXCEPT ![w] = r]
    /\ IF r.failed
       THEN /\ wPc' = [wPc EXCEPT ![w] = "send_err"]
            /\ UNCHANGED wIdx
       ELSE IF r.n = 0
            THEN /\ wPc' = [wPc EXCEPT ![w] = "exit"]
                 /\ UNCHANGED wIdx
            ELSE /\ wPc' = [wPc EXCEPT ![w] = "write"]
                 /\ wIdx' = [wIdx EXCEPT ![w] = 1]
    /\ UNCHANGED <<wUpd, results, resultsClosed, errChan, errChanClosed, wg,
                   doneProcessing, aggPc, aggUpd, coPc, mPc, stats, exRet,
                   writeLog, sentLog>>
    /\ UNCHANGED <<errLog, exCtxDone>>
    /\ UNCHANGED wWhen
    /\ UNCHANGED notExtractVars

\* errChan <- fmt.Errorf(...); return
WorkerSendErr(w) ==
    /\ wPc[w] = "send_err"
    /\ Len(errChan) < ErrChanCap
    /\ errChan' = Append(errChan, ErrAPI(w))
    /\ errLog' = Append(errLog, ErrAPI(w))
    /\ wPc' = [wPc EXCEPT ![w] = "exit"]
    /\ UNCHANGED <<wRes, wIdx, wUpd, results, resultsClosed, errChanClosed, wg,
                   doneProcessing, aggPc, aggUpd, coPc, mPc, stats, exRet,
                   writeLog, sentLog>>
    /\ UNCHANGED exCtxDone
    /\ UNCHANGED wWhen
    /\ UNCHANGED notExtractVars

\* A write call of a worker is noted as made before or after the return of Extract.
NoteWrite(when) ==
    IF exRet.returned THEN [when EXCEPT !.late = TRUE] ELSE [when EXCEPT !.early = TRUE]

WorkerWrite_BreakOnError(w, ok) ==
    /\ wPc[w] = "write"
    /\ writeLog' = [writeLog EXCEPT ![w] = Append(@, [i |-> wIdx[w], ok |-> ok])]
    /\ wWhen' = [wWhen EXCEPT ![w] = NoteWrite(@)]
    /\ wUpd' = [wUpd EXCEPT ![w] = IF ok THEN SuccessUpdate(w) ELSE ErrorUpdate]
    /\ wPc' = [wPc EXCEPT ![w] = "send"]
    /\ wIdx' = [wIdx EXCEPT ![w] = IF ok THEN @ ELSE wRes[w].n]
    /\ UNCHANGED <<wRes, results, resultsClosed, errChan, errChanClosed, wg,
                   doneProcessing, aggPc, aggUpd, coPc, mPc, stats, exRet, sentLog>>
    /\ UNCHANGED <<errLog, exCtxDone>>
    /\ UNCHANGED notExtractVars

WorkerWrite_StopOnFatal(w, ok) ==
    /\ wPc[w] = "write"
    /\ IF exRet.returned
       THEN /\ wPc' = [wPc EXCEPT ![w] = "exit"]
            /\ UNCHANGED <<writeLog, wUpd, wWhen>>
       ELSE /\ writeLog' = [writeLog EXCEPT ![w] = Append(@, [i |-> wIdx[w], ok |-> ok])]
            /\ wWhen' = [wWhen EXCEPT ![w] = NoteWrite(@)]
            /\ wUpd' = [wUpd EXCEPT ![w] = IF ok THEN SuccessUpdate(w) ELSE ErrorUpdate]
            /\ wPc' = [wPc EXCEPT ![w] = "send"]
    /\ UNCHANGED <<wRes, wIdx, results, resultsClosed, errChan, errChanClosed, wg,
                   doneProcessing, aggPc, aggUpd, coPc, mPc, stats, exRet, sentLog>>
    /\ UNCHANGED <<errLog, exCtxDone>>
    /\ UNCHANGED notExtractVars

\* e.storage.WriteUser(user) / WriteProject(project) returns; ok: with a nil error
WorkerWrite(w, ok) ==
    /\ wPc[w] = "write"
    /\ writeLog' = [writeLog EXCEPT ![w] = Append(@, [i |-> wIdx[w], ok |-> ok])]
    /\ wWhen' = [wWhen EXCEPT ![w] = NoteWrite(@)]
    /\ wUpd' = [wUpd EXCEPT ![w] = IF ok THEN SuccessUpdate(w) ELSE ErrorUpdate]
    /\ wPc' = [wPc EXCEPT ![w] = "send"]
    /\ UNCHANGED <<wRes, wIdx, results, resultsClosed, errChan, errChanClosed, wg,
                   doneProcessing, aggPc, aggUpd, coPc, mPc, stats, exRet, sentLog>>
    /\ UNCHANGED <<errLog, exCtxDone>>
    /\ UNCHANGED notExtractVars

\* results <- func(s *Stats) {...}, and on to the next item of the range
WorkerSend(w) ==
    /\ wPc[w] = "send"
    /\ Len(results) < ResultsCap
    /\ results' = Append(results, wUpd[w])
    /\ sentLog' = [sentLog EXCEPT ![w] = Append(@, wUpd[w])]
    /\ wUpd' = [wUpd EXCEPT ![w] = "none"]
    /\ IF wIdx[w] < wRes[w].n
       THEN /\ wIdx' = [wIdx EXCEPT ![w] = @ + 1]
            /\ wPc' = [wPc EXCEPT ![w] = "write"]
       ELSE /\ wPc' = [wPc EXCEPT ![w] = "exit"]
            /\ UNCHANGED wIdx
    /\ UNCHANGED <<wRes, resultsClosed, errChan, errChanClosed, wg,
                   doneProcessing, aggPc, aggUpd, coPc, mPc, stats, exRet, writeLog>>
    /\ UNCHANGED <<errLog, exCtxDone>>
    /\ UNCHANGED wWhen
    /\ UNCHANGED notExtractVars

\* defer wg.Done()
WorkerExit(w) ==
    /\ wPc[w] = "exit"
    /\ wg' = wg - 1
    /\ wPc' = [wPc EXCEPT ![w] = "done"]
    /\ UNCHANGED <<wRes, wIdx, wUpd, results, resultsClosed, errChan, errChanClosed,
                   doneProcessing, aggPc, aggUpd, coPc, mPc, stats, exRet,
                   writeLog, sentLog>>
    /\ UNCHANGED <<errLog, exCtxDone>>
    /\ UNCHANGED wWhen
    /\ UNCHANGED notExtractVars

\* ---- the caller's context ----
\* The ctx passed to Extract is cancelled while Extract runs.
ExtractCancel ==
    /\ ~exCtxDone
    /\ ~exRet.returned
    /\ exCtxDone' = TRUE
    /\ UNCHANGED <<wPc, wRes, wIdx, wUpd, results, resultsClosed, errChan, errChanClosed,
                   wg, doneProcessing, aggPc, aggUpd, coPc, mPc, stats, exRet,
                   writeLog, sentLog, errLog>>
    /\ UNCHANGED wWhen
    /\ UNCHANGED notExtractVars

\* ---- the stats collector ----
AggCanRecv_UntilReturn == results /= <<>> /\ ~exRet.returned

\* the range over results can receive: an update is buffered
AggCanRecv == results /= <<>>

\* for update := range results: an update is received
AggRecv ==
    /\ aggPc = "recv"
    /\ AggCanRecv
    /\ aggUpd' = Head(results)
    /\ results' = Tail(results)
    /\ aggPc' = "apply"
    /\ UNCHANGED <<wPc, wRes, wIdx, wUpd, resultsClosed, errChan, errChanClosed, wg,
                   doneProcessing, coPc, mPc, stats, exRet, writeLog, sentLog>>
    /\ UNCHANGED <<errLog, exCtxDone>>
    /\ UNCHANGED wWhen
    /\ UNCHANGED notExtractVars

\* update(stats)
AggApply ==
    /\ aggPc = "apply"
    /\ stats' = ApplyUpdate(stats, aggUpd)
    /\ aggUpd' = "none"
    /\ aggPc' = "recv"
    /\ UNCHANGED <<wPc, wRes, wIdx, wUpd, results, resultsClosed, errChan, errChanClosed,
                   wg, doneProcessing, coPc, mPc, exRet, writeLog, sentLog>>
    /\ UNCHANGED <<errLog, exCtxDone>>
    /\ UNCHANGED wWhen
    /\ UNCHANGED notExtractVars

\* The range ends, results being closed and drained: close(doneProcessing).
AggEnd ==
    /\ aggPc = "recv"
    /\ results = <<>>
    /\ resultsClosed
    /\ doneProcessing' = TRUE
    /\ aggPc' = "done"
    /\ UNCHANGED <<wPc, wRes, wIdx, wUpd, results, resultsClosed, errChan, errChanClosed,
                   wg, aggUpd, coPc, mPc, stats, exRet, writeLog, sentLog>>
    /\ UNCHANGED <<errLog, exCtxDone>>
    /\ UNCHANGED wWhen
    /\ UNCHANGED notExtractVars

\* ---- the coordination goroutine ----
AllWorkersDone_FirstDone == wg < Cardinality(Workers)

\* wg.Wait() can return: both workers have called wg.Done()
AllWorkersDone == wg = 0

\* wg.Wait() returns
CoordWait ==
    /\ coPc = "wait"
    /\ AllWorkersDone
    /\ coPc' = "close_results"
    /\ UNCHANGED <<wPc, wRes, wIdx, wUpd, results, resultsClosed, errChan, errChanClosed,
                   wg, doneProcessing, aggPc, aggUpd, mPc, stats, exRet,
                   writeLog, sentLog>>
    /\ UNCHANGED <<errLog, exCtxDone>>
    /\ UNCHANGED wWhen
    /\ UNCHANGED notExtractVars

\* close(results)
CoordCloseResults ==
    /\ coPc = "close_results"
    /\ resultsClosed' = TRUE
    /\ coPc' = "close_err"
    /\ UNCHANGED <<wPc, wRes, wIdx, wUpd, results, errChan, errChanClosed,
                   wg, doneProcessing, aggPc, aggUpd, mPc, stats, exRet,
                   writeLog, sentLog>>
    /\ UNCHANGED <<errLog, exCtxDone>>
    /\ UNCHANGED wWhen
    /\ UNCHANGED notExtractVars

\* close(errChan)
CoordCloseErr ==
    /\ coPc = "close_err"
    /\ errChanClosed' = TRUE
    /\ coPc' = "done"
    /\ UNCHANGED <<wPc, wRes, wIdx, wUpd, results, resultsClosed, errChan,
                   wg, doneProcessing, aggPc, aggUpd, mPc, stats, exRet,
                   writeLog, sentLog>>
    /\ UNCHANGED <<errLog, exCtxDone>>
    /\ UNCHANGED wWhen
    /\ UNCHANGED notExtractVars

\* ---- the goroutine that called Extract ----
\* for err := range errChan: an error is received; it is not nil
MainRecvErr ==
    /\ mPc = "range"
    /\ errChan /= <<>>
    /\ exRet' = [returned |-> FALSE, err |-> Head(errChan)]
    /\ errChan' = Tail(errChan)
    /\ mPc' = "fatal"
    /\ UNCHANGED <<wPc, wRes, wIdx, wUpd, results, resultsClosed, errChanClosed,
                   wg, doneProcessing, aggPc, aggUpd, coPc, stats, writeLog, sentLog>>
    /\ UNCHANGED <<errLog, exCtxDone>>
    /\ UNCHANGED wWhen
    /\ UNCHANGED notExtractVars

\* stats.Duration = time.Since(startTime); return stats, err
MainReturnFatal ==
    /\ mPc = "fatal"
    /\ stats' = Stamp(stats)
    /\ exRet' = [exRet EXCEPT !.returned = TRUE]
    /\ mPc' = "returned"
    /\ UNCHANGED <<wPc, wRes, wIdx, wUpd, results, resultsClosed, errChan, errChanClosed,
                   wg, doneProcessing, aggPc, aggUpd, coPc, writeLog, sentLog>>
    /\ UNCHANGED <<errLog, exCtxDone>>
    /\ UNCHANGED wWhen
    /\ UNCHANGED notExtractVars

ErrChanDrained_NoClose == errChan = <<>>

\* the range over errChan can end: the channel is closed and empty
ErrChanDrained == errChan = <<>> /\ errChanClosed

\* The range ends, errChan being closed and drained.
MainRangeEnd ==
    /\ mPc = "range"
    /\ ErrChanDrained
    /\ mPc' = "wait_done"
    /\ UNCHANGED <<wPc, wRes, wIdx, wUpd, results, resultsClosed, errChan, errChanClosed,
                   wg, doneProcessing, aggPc, aggUpd, coPc, stats, exRet,
                   writeLog, sentLog>>
    /\ UNCHANGED <<errLog, exCtxDone>>
    /\ UNCHANGED wWhen
    /\ UNCHANGED notExtractVars

CollectorDone_NoWait == TRUE

\* <-doneProcessing can be received
CollectorDone == doneProcessing

\* <-doneProcessing; stats.Duration = time.Since(startTime); return stats, nil
MainReturn ==
    /\ mPc = "wait_done"
    /\ CollectorDone
    /\ stats' = Stamp(stats)
    /\ exRet' = [returned |-> TRUE, err |-> NilErr]
    /\ mPc' = "returned"
    /\ UNCHANGED <<wPc, wRes, wIdx, wUpd, results, resultsClosed, errChan, errChanClosed,
                   wg, doneProcessing, aggPc, aggUpd, coPc, writeLog, sentLog>>
    /\ UNCHANGED <<errLog, exCtxDone>>
    /\ UNCHANGED wWhen
    /\ UNCHANGED notExtractVars

\* The steps of the goroutines of Extract.
ExtractSteps ==
    \/ \E w \in Workers : \E r \in FetchResultsFor(w) : WorkerFetch(w, r)
    \/ \E w \in Workers : WorkerSendErr(w)
    \/ \E w \in Workers : \E ok \in WriteResultsFor(w) : WorkerWrite(w, ok)
    \/ \E w \in Workers : WorkerSend(w)
    \/ \E w \in Workers : WorkerExit(w)
    \/ AggRecv
    \/ AggApply
    \/ AggEnd
    \/ CoordWait
    \/ CoordCloseResults
    \/ CoordCloseErr
    \/ MainRecvErr
    \/ MainReturnFatal
    \/ MainRangeEnd
    \/ MainReturn

ExtractNext ==
    \/ ExtractSteps
    \/ ExtractCancel

SpecExtract == ExtractInit /\ [][ExtractNext]_vars

\* Extract is called with a ctx that is not cancelled.  (The ctx reaches the
\* goroutines of Extract through the two fetches only; the fetch that a
\* cancelled ctx fails is among the failed fetches of FetchResults.)
ExtractLiveInit ==
    /\ ExtractInit
    /\ ~exCtxDone

\* Every fetch and write call returns and a goroutine that can take a step
\* is scheduled: the goroutines do not all stand still while one can move.
SpecExtractLive ==
    ExtractLiveInit /\ [][ExtractSteps]_vars /\ WF_vars(ExtractSteps)


(***************************************************************************)
(* Properties of Extract                                                   *)
(***************************************************************************)
\* The write calls of worker w that returned a nil error / an error.
OkWrites(w) == Cardinality({k \in 1..Len(writeLog[w]) : writeLog[w][k].ok})
FailedWrites(w) == Cardinality({k \in 1..Len(writeLog[w]) : ~writeLog[w][k].ok})

\* Both fetch stages have returned, without an error.
BothFetched == \A w \in Workers : wPc[w] /= "fetch" /\ ~wRes[w].failed

\* C16: when Extract has returned and both fetch stages succeeded, the error
\* is nil, UsersExtracted and ProjectsExtracted are the numbers of user and
\* project writes that succeeded, Errors is the number of failed writes of
\* both classes, and the three add up to the number of fetched items.
C16_StatsCountTheWrites ==
    (exRet.returned /\ BothFetched) =>
        /\ exRet.err = NilErr
        /\ stats.UsersExtracted = OkWrites(UserWorker)
        /\ stats.ProjectsExtracted = OkWrites(ProjectWorker)
        /\ stats.Errors = FailedWrites(UserWorker) + FailedWrites(ProjectWorker)
        /\ stats.UsersExtracted + stats.ProjectsExtracted + stats.Errors
              = wRes[UserWorker].n + wRes[ProjectWorker].n

\* Every write of one class failed and every write of the other succeeded.
C16_Witness ==
    /\ exRet.returned
    /\ exRet.err = NilErr
    /\ wRes[UserWorker].n = MaxItems /\ wRes[ProjectWorker].n = MaxItems
    /\ stats.UsersExtracted = MaxItems
    /\ stats.ProjectsExtracted = 0
    /\ stats.Errors = MaxItems

\* C17: a worker whose fetch succeeded has called the write once for each of
\* the items before the one it is at, in sequence order, whatever the
\* outcomes; it has sent one update for each of these calls, the
\* error-increment for exactly the failed ones; it ends only after the last
\* item; and Extract returns no error because of a failed write.
C17_FailedWriteIsNotFatal ==
    /\ \A w \in Workers :
          (wPc[w] /= "fetch" /\ ~wRes[w].failed) =>
              /\ \A k \in 1..Len(writeLog[w]) : writeLog[w][k].i = k
              /\ Len(writeLog[w]) = IF wPc[w] = "write" THEN wIdx[w] - 1 ELSE wIdx[w]
              /\ Len(sentLog[w]) = IF wPc[w] = "send" THEN wIdx[w] - 1 ELSE Len(writeLog[w])
              /\ \A k \in 1..Len(sentLog[w]) :
                    sentLog[w][k] = IF writeLog[w][k].ok THEN SuccessUpdate(w) ELSE ErrorUpdate
              /\ wPc[w] \in {"exit", "done"} => Len(writeLog[w]) = wRes[w].n
    /\ (exRet.returned /\ BothFetched) => exRet.err = NilErr

\* A worker has ended after a failed first write and a later write.
C17_Witness ==
    \E w \in Workers :
        /\ wPc[w] = "done"
        /\ wRes[w].n = MaxItems
        /\ ~writeLog[w][1].ok
        /\ Len(writeLog[w]) = MaxItems
        /\ Len(sentLog[w]) = MaxItems

\* The updates the workers have sent.
UpdatesSent == Len(sentLog[UserWorker]) + Len(sentLog[ProjectWorker])

\* The updates the collector has applied.
UpdatesApplied == stats.UsersExtracted + stats.ProjectsExtracted + stats.Errors

\* C18: results is closed only after both workers have ended; the collector
\* ends only after that close, with nothing left in the channel; Extract
\* passes <-doneProcessing only after the collector has ended; so when
\* Extract has returned a nil error every update sent has been applied.
C18_ReturnsAfterAllUpdatesApplied ==
    /\ resultsClosed => \A w \in Workers : wPc[w] = "done"
    /\ aggPc = "done" => (resultsClosed /\ results = <<>> /\ aggUpd = "none")
    /\ doneProcessing => aggPc = "done"
    /\ (exRet.returned /\ exRet.err = NilErr) =>
          /\ doneProcessing
          /\ \A w \in Workers : wPc[w] = "done"
          /\ UpdatesApplied = UpdatesSent

\* Extract has returned after the updates of all items of both classes.
C18_Witness ==
    /\ exRet.returned
    /\ exRet.err = NilErr
    /\ UpdatesSent = 2 * MaxItems
    /\ UpdatesApplied = 2 * MaxItems

\* C19: while the collector has not ended, a step that changes stats is the
\* collector's update(stats).
C19_OnlyCollectorWritesStats ==
    [][(stats' /= stats /\ aggPc /= "done") =>
          (aggPc = "apply" /\ aggPc' = "recv" /\ mPc' = mPc)
      ]_vars

\* C20: once Extract has returned, stats does not change.
C20_StatsStableAfterReturn ==
    [][exRet.returned => stats' = stats]_vars

\* A worker's fetch stage has returned an error.
FetchFailed(w) == wPc[w] /= "fetch" /\ wRes[w].failed

\* C21: when Extract has returned, its error is non-nil exactly if the fetch
\* stage of at least one worker returned an error, and the error is then the
\* API failure of a worker whose fetch failed; an Extract that returns nil
\* has seen both fetches succeed, whatever the writes did.
C21_ErrorIffFetchFailed ==
    exRet.returned =>
        /\ exRet.err /= NilErr <=> \E w \in Workers : FetchFailed(w)
        /\ exRet.err /= NilErr =>
              \E w \in Workers : FetchFailed(w) /\ exRet.err = ErrAPI(w)
        /\ exRet.err = NilErr => \A w \in Workers : wPc[w] = "done"

\* Extract has returned the error of the projects fetch, the users fetch
\* having succeeded and every write of a user having failed.
C21_Witness ==
    /\ exRet.returned
    /\ exRet.err = ErrAPI(ProjectWorker)
    /\ ~wRes[UserWorker].failed
    /\ FailedWrites(UserWorker) = MaxItems

\* C22: the error Extract holds, and returns, is the first one sent on
\* errChan, and any later one is never returned; a worker about to send on
\* errChan finds the channel open and with room, so the send completes at
\* once.
C22_FirstErrorWins ==
    /\ mPc \in {"fatal", "returned"} /\ exRet.err /= NilErr => exRet.err = errLog[1]
    /\ \A w \in Workers :
          wPc[w] = "send_err" => ~errChanClosed /\ Len(errChan) < ErrChanCap
    /\ Len(errLog) <= Cardinality(Workers)

\* Both fetches failed, the projects worker sent first, Extract returned its
\* error and the users worker then sent its own.
C22_Witness ==
    /\ exRet.returned
    /\ errLog = <<ErrAPI(ProjectWorker), ErrAPI(UserWorker)>>
    /\ exRet.err = ErrAPI(ProjectWorker)
    /\ errChan = <<ErrAPI(UserWorker)>>
    /\ wPc[UserWorker] = "done"

\* C23: an Extract whose ctx was cancelled before it returned returns a
\* non-nil error.
C23_CancelledExtractFails ==
    (exRet.returned /\ exCtxDone) => exRet.err /= NilErr

\* C24: once the ctx passed to Extract is cancelled, no worker makes a
\* WriteUser / WriteProject call.
C24_NoNewWorkAfterCancel ==
    [][exCtxDone => writeLog' = writeLog]_vars


(***************************************************************************)
(* Limiter.rateLimiter over time.  NewLimiter builds it as                 *)
(* rate.NewLimiter(rate.Limit(RequestsPerMinute / 60.0), RequestsPerMinute)*)
(* (limiter.go:43-47): one token every 60/RequestsPerMinute seconds, a     *)
(* burst of RequestsPerMinute tokens, the bucket full at first.  Time is  *)
(* counted in refill intervals, so that one token arrives per tick and a  *)
(* minute is RequestsPerMinute ticks.  The callers have concurrency to    *)
(* spare, so a call of Acquire passes when Wait returns nil.              *)
(***************************************************************************)
\* cfg.RequestsPerMinute is in 1..MaxRate; the clock runs up to MaxTicks
MaxRate == 3
MaxTicks == 6

\* NewLimiter(cfg)
BucketInit ==
    /\ LimiterIdle
    /\ RetryIdle
    /\ BackoffIdle
    /\ ClientIdle
    /\ PagerIdle
    /\ ExtractIdle
    /\ BodyIdle
    /\ SchedIdle
    /\ ShouldIdle
    /\ bkBurst \in 1..MaxRate
    /\ bkTokens = bkBurst
    /\ bkNow = 0
    /\ bkGrants = <<>>

\* One refill interval passes: a token arrives, unless the bucket is full.
BucketTick ==
    /\ bkNow < MaxTicks
    /\ bkNow' = bkNow + 1
    /\ bkTokens' = IF bkTokens < bkBurst THEN bkTokens + 1 ELSE bkTokens
    /\ UNCHANGED <<bkBurst, bkGrants>>
    /\ UNCHANGED notBucketVars

\* l.rateLimiter.Wait(ctx) returns nil to a call of Acquire: a token is taken.
BucketWait ==
    /\ bkTokens > 0
    /\ bkTokens' = bkTokens - 1
    /\ bkGrants' = Append(bkGrants, bkNow)
    /\ UNCHANGED <<bkBurst, bkNow>>
    /\ UNCHANGED notBucketVars

BucketNext ==
    \/ BucketTick
    \/ BucketWait

SpecBucket == BucketInit /\ [][BucketNext]_vars

\* The calls that passed the bucket in the minute that begins at tick t.
GrantsInMinute(t) ==
    Cardinality({k \in 1..Len(bkGrants) : bkGrants[k] >= t /\ bkGrants[k] < t + bkBurst})

\* C25: the k-th Acquire of a fresh Limiter passes no earlier than k-1 refill
\* intervals after NewLimiter.
C25_CallsArePaced ==
    \A k \in 1..Len(bkGrants) : bkGrants[k] >= k - 1

\* C26: in any minute, RequestsPerMinute refill intervals long, at most
\* RequestsPerMinute calls of Acquire pass the bucket.
C26_AtMostRatePerMinute ==
    \A t \in 0..MaxTicks : GrantsInMinute(t) <= bkBurst


(***************************************************************************)
(* CronScheduler.Start.  s.cron runs every due job in a goroutine of its   *)
(* own; s.cron.Stop() stops the scheduling of further runs and returns at  *)
(* once a context that is done when the running jobs have ended, which     *)
(* CronScheduler.Stop drops.                                               *)
(***************************************************************************)
\* the runs of the job the schedule can come to start
MaxJobs == 4
JobRuns == 1..MaxJobs

ErrCronExpr == [kind |-> "cron_expr"]

\* sched.Start(ctx, extractionJob) is called on a new CronScheduler
SchedInit ==
    /\ LimiterIdle
    /\ RetryIdle
    /\ BackoffIdle
    /\ ClientIdle
    /\ PagerIdle
    /\ ExtractIdle
    /\ BodyIdle
    /\ BucketIdle
    /\ ShouldIdle
    /\ schPc = "add"
    /\ schCtxDone \in BOOLEAN
    /\ cronRunning = FALSE
    /\ jobs = [j \in JobRuns |-> "none"]
    /\ schRet = [returned |-> FALSE, err |-> NilErr]

\* s.cron.AddFunc(s.cronExpr, ...) returns an error: return err
SchedAddFuncFails ==
    /\ schPc = "add"
    /\ schPc' = "returned"
    /\ schRet' = [returned |-> TRUE, err |-> ErrCronExpr]
    /\ UNCHANGED <<schCtxDone, cronRunning, jobs>>
    /\ UNCHANGED notSchedVars

\* AddFunc returns nil; s.cron.Start(); Start goes on to <-ctx.Done()
SchedCronStart ==
    /\ schPc = "add"
    /\ schPc' = "wait"
    /\ cronRunning' = TRUE
    /\ UNCHANGED <<schCtxDone, jobs, schRet>>
    /\ UNCHANGED notSchedVars

\* The schedule is due: the cron starts the next run of the job in a new goroutine.
CronFire(j) ==
    /\ cronRunning
    /\ jobs[j] = "none"
    /\ \A i \in JobRuns : i < j => jobs[i] /= "none"
    /\ jobs' = [jobs EXCEPT ![j] = "running"]
    /\ UNCHANGED <<schPc, schCtxDone, cronRunning, schRet>>
    /\ UNCHANGED notSchedVars

\* A run of the job returns: Extract has returned and its outcome is logged.
JobFinish(j) ==
    /\ jobs[j] = "running"
    /\ jobs' = [jobs EXCEPT ![j] = "done"]
    /\ UNCHANGED <<schPc, schCtxDone, cronRunning, schRet>>
    /\ UNCHANGED notSchedVars

\* cancel(): the ctx passed to Start is cancelled.
SchedCancel ==
    /\ ~schCtxDone
    /\ ~schRet.returned
    /\ schCtxDone' = TRUE
    /\ UNCHANGED <<schPc, cronRunning, jobs, schRet>>
    /\ UNCHANGED notSchedVars

\* <-ctx.Done() is received
SchedCtxDone ==
    /\ schPc = "wait"
    /\ schCtxDone
    /\ schPc' = "stop"
    /\ UNCHANGED <<schCtxDone, cronRunning, jobs, schRet>>
    /\ UNCHANGED notSchedVars

\* s.Stop(): s.cron.Stop() returns without blocking, and the context it
\* returns is not waited on
SchedStop ==
    /\ schPc = "stop"
    /\ cronRunning' = FALSE
    /\ schPc' = "return"
    /\ UNCHANGED <<schCtxDone, jobs, schRet>>
    /\ UNCHANGED notSchedVars

\* return nil
SchedReturn ==
    /\ schPc = "return"
    /\ schPc' = "returned"
    /\ schRet' = [returned |-> TRUE, err |-> NilErr]
    /\ UNCHANGED <<schCtxDone, cronRunning, jobs>>
    /\ UNCHANGED notSchedVars

SchedNext ==
    \/ SchedAddFuncFails
    \/ SchedCronStart
    \/ \E j \in JobRuns : CronFire(j)
    \/ \E j \in JobRuns : JobFinish(j)
    \/ SchedCancel
    \/ SchedCtxDone
    \/ SchedStop
    \/ SchedReturn

SpecSched == SchedInit /\ [][SchedNext]_vars

\* C27: when Start has returned, no run of the job is still under way.
C27_StartReturnsAfterRunningJob ==
    schRet.returned => \A j \in JobRuns : jobs[j] /= "running"


(***************************************************************************)
(* The order of the two checks of Acquire                                  *)
(***************************************************************************)
\* C28: a call comes to the locked test of its counter for the first time by
\* the step that takes a token from the bucket, and again only from the
\* select after a failed test; a counter is incremented, and the select
\* entered, by that test alone; and the step by which a call fails on the
\* bucket finds the call with no test and no increment made and leaves both
\* counters as they are.
C28_TokenBeforeSlot ==
    [][\A c \in Callers :
          /\ (pc[c] /= "try_slot" /\ pc'[c] = "try_slot") =>
                \/ pc[c] = "wait_token" /\ tokens > 0 /\ tokens' = tokens - 1
                \/ pc[c] = "poll"
          /\ (pc[c] /= "poll" /\ pc'[c] = "poll") => pc[c] = "try_slot"
          /\ (incs'[c] > incs[c] \/ (polled'[c] /\ ~polled[c])) => pc[c] = "try_slot"
          /\ (pc[c] = "wait_token" /\ pc'[c] /= "wait_token") =>
                /\ incs[c] = 0 /\ ~polled[c]
                /\ incs'[c] = 0 /\ ~polled'[c]
                /\ currentReads' = currentReads
                /\ currentWrites' = currentWrites
      ]_vars

\* A call has failed on the bucket, with no test made, while its class had
\* headroom, and another call holds a slot it got after its token.
C28_Witness ==
    \E c, d \in Callers :
        /\ pc[c] = "failed" /\ ~polled[c] /\ incs[c] = 0
        /\ currentReads < MaxConcurrentRead
        /\ currentWrites < MaxConcurrentWrite
        /\ pc[d] = "holding" /\ incs[d] = 1


(***************************************************************************)
(* One call of retry.ShouldRetry, over the status codes 100..MaxStatus     *)
(***************************************************************************)
MaxStatus == 600
StatusCodes == 100..MaxStatus

\* What ShouldRetry is called with: a response of any status with a nil
\* error or an error, or a nil response with an error.
ShouldRetryInputs ==
    [resp : [nil : {FALSE}, StatusCode : StatusCodes, RetryAfter : {[kind |-> "absent"]},
             Body : {TRUE}],
     err : {NilErr, ErrTransport}]
    \cup {[resp |-> NilResp, err |-> ErrTransport]}

ShouldInit ==
    /\ LimiterIdle
    /\ RetryIdle
    /\ BackoffIdle
    /\ ClientIdle
    /\ PagerIdle
    /\ ExtractIdle
    /\ BodyIdle
    /\ BucketIdle
    /\ SchedIdle
    /\ srIn \in ShouldRetryInputs
    /\ srOut = [returned |-> FALSE, v |-> FALSE]

\* ShouldRetry(resp, err) returns
CallShouldRetry ==
    /\ ~srOut.returned
    /\ srOut' = [returned |-> TRUE, v |-> ShouldRetry(srIn.resp, srIn.err)]
    /\ UNCHANGED srIn
    /\ UNCHANGED notShouldVars

ShouldNext == CallShouldRetry

SpecShould == ShouldInit /\ [][ShouldNext]_vars

\* C29: ShouldRetry returns true exactly if err is not nil, or the status is
\* 429, or the status is in 500..599; with a nil error every other status,
\* 2xx, 3xx and 4xx but 429 among them, gives false.
C29_RetryableIffErrOr429Or5xx ==
    srOut.returned =>
        /\ srOut.v <=> \/ srIn.err /= NilErr
                       \/ srIn.resp.StatusCode = 429
                       \/ srIn.resp.StatusCode \in 500..599
        /\ (srIn.err = NilErr /\ srIn.resp.StatusCode \in (200..499) \ {429}) => ~srOut.v

\* The call has returned true on a 500 with a nil error.
C29_Witness ==
    /\ srOut.returned
    /\ srOut.v
    /\ srIn.err = NilErr
    /\ srIn.resp.StatusCode = 500


(***************************************************************************)
(* One call of Client.GetBody: c.Get(ctx, url) builds a GET request and    *)
(* calls c.Do, which this specification runs with no other request in      *)
(* flight, so that the test of the in-flight counter passes at once; then  *)
(* GetBody looks at what Do returned and reads the body.                   *)
(***************************************************************************)
\* the error of io.ReadAll(resp.Body), the body ending before its time
ErrRead == [kind |-> "read"]

\* io.ReadAll(resp.Body): the bytes read, all of the payload if ok, and the error
ReadAll(ok) ==
    [bytes |-> [nil |-> FALSE, complete |-> ok], err |-> IF ok THEN NilErr ELSE ErrRead]

\* fmt.Errorf("unexpected status code %d: %s", resp.StatusCode, string(body))
ErrUnexpectedStatus(code, body) ==
    [kind |-> "unexpected_status", status |-> code, body |-> body]

\* fmt.Errorf("failed to create request: %w", err)
ErrCreateRequest == [kind |-> "create_request"]

IsStatusOK_Below500(code) == code < 500

\* resp.StatusCode != http.StatusOK, negated
IsStatusOK(code) == code = 200

\* client.New, and GetBody about to call c.Get, which builds the request
\* and, when that succeeds, calls c.Do
GetBodyInit ==
    /\ currentReads = 0
    /\ currentWrites = 0
    /\ tokens = Burst
    /\ pc = [c \in Requests |-> "idle"]
    /\ reqType = [c \in Requests |-> RequestTypeRead]
    /\ ctxDone = [c \in Requests |-> FALSE]
    /\ polled = [c \in Requests |-> FALSE]
    /\ incs = [c \in Requests |-> 0]
    /\ RetryIdle
    /\ BackoffIdle
    /\ PagerIdle
    /\ ExtractIdle
    /\ BucketIdle
    /\ SchedIdle
    /\ ShouldIdle
    /\ retryConfig \in ClientPolicies
    /\ cPc = "start"
    /\ cMethod = "GET"
    /\ cCtxDone \in BOOLEAN
    /\ cRetResp = NilResp
    /\ cRetErr = NilErr
    /\ releases = 0
    /\ gbRet = [state |-> "called", body |-> NilBytes, err |-> NilErr, closedBody |-> FALSE]
    /\ gbURLValid \in BOOLEAN

\* req, err := http.NewRequestWithContext(...) fails: c.Get returns nil and
\* the wrapped error without calling c.Do, and GetBody returns nil, err.
GetFailed ==
    /\ ~gbURLValid
    /\ cPc = "start"
    /\ gbRet.state = "called"
    /\ gbRet' = [state |-> "returned", body |-> NilBytes, err |-> ErrCreateRequest,
                 closedBody |-> FALSE]
    /\ UNCHANGED gbURLValid
    /\ UNCHANGED <<limiterVars, retryVars, clientVars>>
    /\ UNCHANGED notBodyVars

\* c.Get has returned resp, err: the rest of GetBody.  With a nil resp and a
\* nil err, resp.Body of the defer statement is a nil dereference.
\* closedBody: the deferred resp.Body.Close() has run.
GetBodyReturn(readOk) ==
    /\ cPc = "returned"
    /\ gbRet.state = "called"
    /\ gbRet' =
          IF cRetErr /= NilErr
          THEN [state |-> "returned", body |-> NilBytes, err |-> cRetErr,
                closedBody |-> FALSE]
          ELSE IF cRetResp = NilResp
          THEN [state |-> "panicked", body |-> NilBytes, err |-> NilErr,
                closedBody |-> FALSE]
          ELSE IF ~IsStatusOK(cRetResp.StatusCode)
          THEN [state |-> "returned", body |-> NilBytes,
                err |-> ErrUnexpectedStatus(cRetResp.StatusCode, ReadAll(readOk).bytes),
                closedBody |-> TRUE]
          ELSE [state |-> "returned", body |-> ReadAll(readOk).bytes,
                err |-> ReadAll(readOk).err, closedBody |-> TRUE]
    /\ UNCHANGED gbURLValid
    /\ UNCHANGED <<limiterVars, retryVars, clientVars>>
    /\ UNCHANGED notBodyVars

GetBodyNext ==
    \/ GetFailed
    \/ gbURLValid /\ ClientDo
    \/ ClientCancel
    \/ ClientAcquireFailed
    \/ ClientRetryStart
    \/ \E o \in ClientOutcomes, draw \in Draws : ClientAttempt(o, draw)
    \/ cPc = "retry" /\ LoopExit
    \/ cPc = "retry" /\ WaitTimer
    \/ cPc = "retry" /\ WaitCancelled
    \/ ClientReturn
    \/ Refill
    \/ WaitToken(ClientCaller)
    \/ WaitTokenCancelled(ClientCaller)
    \/ TrySlot(ClientCaller)
    \/ \E readOk \in BOOLEAN : GetBodyReturn(readOk)

SpecGetBody == GetBodyInit /\ [][GetBodyNext]_vars

\* The error c.Get returned to GetBody.
GetErr == IF gbURLValid THEN cRetErr ELSE ErrCreateRequest

\* C30 as stated: GetBody returns the payload with a nil error exactly when
\* c.Get returned a response of status 200 with a nil error.
C30_PayloadExactlyOn200 ==
    gbRet.state = "returned" =>
        ((gbRet.body /= NilBytes /\ gbRet.err = NilErr)
            <=> (GetErr = NilErr /\ cRetResp.StatusCode = 200))

\* C30: GetBody returns an error of c.Get unchanged, with nil bytes; on a
\* response of status 200 it returns what io.ReadAll returned, the whole
\* payload with a nil error or the bytes read with the read error; on a
\* response of another status it returns nil bytes and an error with the
\* status code and the body read; so the payload comes with a nil error
\* only on a 200.
C30_GetBodyResult ==
    gbRet.state = "returned" =>
        /\ GetErr /= NilErr => gbRet.body = NilBytes /\ gbRet.err = GetErr
        /\ ~gbURLValid => (calls = 0 /\ pc[ClientCaller] = "idle")
        /\ GetErr = NilErr =>
              IF cRetResp.StatusCode = 200
              THEN /\ gbRet.body /= NilBytes
                   /\ gbRet.err \in {NilErr, ErrRead}
                   /\ gbRet.err = NilErr <=> gbRet.body.complete
              ELSE /\ gbRet.body = NilBytes
                   /\ gbRet.err.kind = "unexpected_status"
                   /\ gbRet.err.status = cRetResp.StatusCode
                   /\ gbRet.err.body /= NilBytes
        /\ (gbRet.body /= NilBytes /\ gbRet.err = NilErr) =>
              (GetErr = NilErr /\ cRetResp.StatusCode = 200)

\* GetBody has returned the payload of a 200 that came on the second call,
\* after a retried failure.
C30_Witness ==
    /\ gbRet.state = "returned"
    /\ calls = 2
    /\ cRetResp.StatusCode = 200
    /\ gbRet.body = [nil |-> FALSE, complete |-> TRUE]
    /\ gbRet.err = NilErr


(***************************************************************************)
(* The side effects of retry.Do                                            *)
(***************************************************************************)
\* The calls of fn whose response body Do has closed.
ClosedCalls == {closed[k] : k \in 1..Len(closed)}

\* A response that has a body to close.
HasBody(r) == r /= NilResp /\ r.Body

\* C31: fn has been called once in each iteration of the loop begun; in the
\* select, the body of the response of the iteration is closed, if it has
\* one, and this is the last close; no body is closed twice; a step closes a
\* body only on the way from fn to the select; and a response Do returns
\* is the one of the last call, whose body Do has not closed.
C31_CloseOncePerDiscardedAttempt ==
    /\ [](/\ rPc = "loop" => calls = attempt
          /\ rPc = "wait" =>
                /\ calls = attempt + 1
                /\ HasBody(resp) <=> (closed /= <<>> /\ closed[Len(closed)] = calls)
          /\ rPc = "done" => calls \in {attempt, attempt + 1}
          /\ \A j, k \in 1..Len(closed) : j < k => closed[j] < closed[k]
          /\ ClosedCalls \subseteq 1..calls
          /\ (rPc = "done" /\ retResp /= NilResp) =>
                (retResp = resp /\ calls \notin ClosedCalls))
    /\ [][closed' /= closed =>
            (rPc = "loop" /\ rPc' = "wait" /\ calls' = calls + 1
             /\ closed' = Append(closed, calls'))]_vars

\* Do has returned the response of its third call, having closed the bodies
\* of the first two.
C31_Witness ==
    /\ rPc = "done"
    /\ calls = 3
    /\ closed = <<1, 2>>
    /\ HasBody(retResp)
    /\ retErr = NilErr


(***************************************************************************)
(* The requests of GetAllUsers / GetAllProjects                            *)
(***************************************************************************)
\* C32: one request has been sent for each fetch; the first carries no
\* offset parameter; the request after page k was sent on a page k that was
\* received with items and a cursor, and carries that cursor as its offset;
\* and while the loop runs the items collected are those of the pages
\* received, in the order of the pages.
C32_CursorChain ==
    /\ Len(pgSent) = fetches
    /\ pgSent /= <<>> => pgSent[1] = [set |-> FALSE]
    /\ \A k \in 2..Len(pgSent) :
          /\ Answer(k - 1).kind = "ok"
          /\ ~LastPage(k - 1)
          /\ pgSent[k] = [set |-> TRUE, value |-> Answer(k - 1).NextPage.Offset]
    /\ pgPc = "loop" => allItems.items = Concat(fetches)

\* Three requests were sent, the second and third with the two different
\* cursors of the pages before them.
C32_Witness ==
    /\ fetches = 3
    /\ pgSent = <<[set |-> FALSE], [set |-> TRUE, value |-> "next"],
                  [set |-> TRUE, value |-> "after"]>>
    /\ Answer(1).NextPage.Offset = "next"
    /\ Answer(2).NextPage.Offset = "after"


(***************************************************************************)
(* Termination of Extract and of its goroutines                            *)
(***************************************************************************)
\* Extract has returned and its four goroutines have ended.
AllEnded ==
    /\ exRet.returned
    /\ \A w \in Workers : wPc[w] = "done"
    /\ aggPc = "done"
    /\ coPc = "done"

\* C33: a worker about to send finds its channel open; and in the end
\* Extract has returned and the workers, the collector and the coordinator
\* have ended, on the fatal path too and with more updates than results holds.
C33_ExtractTerminates ==
    /\ [](\A w \in Workers :
             /\ wPc[w] = "send" => ~resultsClosed
             /\ wPc[w] = "send_err" => ~errChanClosed /\ Len(errChan) < ErrChanCap)
    /\ <>[]AllEnded

\* Extract returned the users error, and the projects worker has since
\* written and sent more updates than results holds; all goroutines ended.
C33_Witness ==
    /\ AllEnded
    /\ exRet.err = ErrAPI(UserWorker)
    /\ Len(sentLog[ProjectWorker]) > ResultsCap
    /\ UpdatesApplied = Len(sentLog[ProjectWorker])


\* Extract has returned the error of a fetch, or is about to.
FatalPath == mPc \in {"fatal", "returned"} /\ exRet.err /= NilErr

\* C34: on the fatal path the return of Extract follows the receive from
\* errChan with nothing awaited in between, wherever the workers stand; a
\* worker whose fetch succeeded and which has ended has made the write call
\* and sent the update for every one of its items, whether Extract had
\* returned by then or not; and every worker comes to its end.
C34_SurvivorRunsOn ==
    /\ [](mPc = "fatal" => ENABLED MainReturnFatal)
    /\ [](\A w \in Workers :
             (FatalPath /\ wPc[w] = "done" /\ ~wRes[w].failed) =>
                 /\ Len(writeLog[w]) = wRes[w].n
                 /\ Len(sentLog[w]) = wRes[w].n)
    /\ <>[](\A w \in Workers : wPc[w] = "done")

\* Extract returned the users error while the projects worker had not yet
\* fetched; that worker has since made all its write calls, and the
\* collector has applied their updates to stats.
C34_Witness ==
    /\ exRet.returned
    /\ exRet.err = ErrAPI(UserWorker)
    /\ wPc[ProjectWorker] = "done"
    /\ wRes[ProjectWorker].n = MaxItems
    /\ Len(writeLog[ProjectWorker]) = MaxItems
    /\ wWhen[ProjectWorker] = [early |-> FALSE, late |-> TRUE]
    /\ stats.ProjectsExtracted + stats.Errors = MaxItems


(***************************************************************************)
(* What one call of Client.Do takes from the Limiter                       *)
(***************************************************************************)
\* C35: the call enters Acquire once, from the start of Do; it takes its
\* token there, before any call of fn; it increments a counter once; while
\* retry.Do runs it holds that one slot; a call of fn, first or repeated,
\* and the end of a backoff wait change neither the bucket nor a counter;
\* and a token leaves the bucket only when Wait returns nil to a request.
C35_OneTokenOneSlotPerDo ==
    /\ [](/\ incs[ClientCaller] <= 1
          /\ cPc = "retry" => (pc[ClientCaller] = "holding" /\ incs[ClientCaller] = 1))
    /\ [][/\ (pc[ClientCaller] /= "wait_token" /\ pc'[ClientCaller] = "wait_token")
                => cPc = "start"
          /\ (pc[ClientCaller] = "wait_token" /\ pc'[ClientCaller] = "try_slot")
                => (cPc = "acquire" /\ calls = 0 /\ tokens' = tokens - 1)
          /\ (calls' /= calls \/ attempt' /= attempt) =>
                /\ tokens' = tokens
                /\ currentReads' = currentReads
                /\ currentWrites' = currentWrites
                /\ (calls' > 0 => pc[ClientCaller] = "holding")
                /\ pc'[ClientCaller] = pc[ClientCaller]
          /\ tokens' < tokens =>
                \E c \in Requests : pc[c] = "wait_token" /\ pc'[c] = "try_slot"
      ]_vars

\* The call is in its second call of fn's aftermath, on its one token and
\* one slot, while the bucket is empty and another request waits for a token.
C35_Witness ==
    /\ cPc = "retry"
    /\ calls = 2
    /\ incs[ClientCaller] = 1
    /\ tokens = 0
    /\ \E d \in OtherRequests : pc[d] = "wait_token"


(***************************************************************************)
(* retry.Do with a negative MaxRetries, and the bodies GetBody leaves open *)
(***************************************************************************)
\* C36: when Do has returned, fn was called at least once, and the response
\* and the error returned are not both nil.
C36_DoCallsOnceAndReturnsSomething ==
    rPc = "done" =>
        /\ calls >= 1
        /\ ~(retResp = NilResp /\ retErr = NilErr)

\* C37: when GetBody has returned, the body of the response of the last
\* network call, if there was one, has been closed once: by retry.Do before
\* a wait, or by GetBody's deferred Close, and not by both.
C37_EveryBodyClosedOnce ==
    gbRet.state = "returned" =>
        /\ ClosedCalls \subseteq 1..calls
        /\ HasBody(resp) => ((calls \in ClosedCalls) /= gbRet.closedBody)
        /\ ~HasBody(resp) => ~gbRet.closedBody


(***************************************************************************)
(* The in-flight counters under paired use                                 *)
(***************************************************************************)
\* The callers between a successful Acquire of class t and its Release.
Holders(t) == {c \in Callers : pc[c] = "holding" /\ reqType[c] = t}

\* No caller is inside Acquire or holds a slot.
AllFinished == \A c \in Callers : pc[c] \in {"idle", "released", "failed"}

\* C38: with every Release paired to a successful Acquire, the counter of
\* each class is the number of callers that hold a slot of the class, and
\* both counters are 0 when no caller is in Acquire or holds a slot.
C38_CountersCountHolders ==
    /\ \A t \in RequestTypes : Counter(t) = Cardinality(Holders(t))
    /\ AllFinished => (currentReads = 0 /\ currentWrites = 0)

\* Every caller has acquired and released, one of them a write slot and one
\* a read slot, and one call besides failed; the counters are back at 0.
C38_Witness ==
    /\ currentReads = 0 /\ currentWrites = 0
    /\ \E c, d, e \in Callers :
          /\ pc[c] = "released" /\ reqType[c] = RequestTypeWrite
          /\ pc[d] = "released" /\ reqType[d] = RequestTypeRead
          /\ pc[e] = "failed"


(***************************************************************************)
(* Progress of the polling Acquire.  Every caller's steps are weakly fair: *)
(* a caller that can take its next step of Acquire takes it, a holder      *)
(* releases, a caller that has released goes on, and the bucket refills.   *)
(***************************************************************************)
SpecPairedLive ==
    /\ SpecPaired
    /\ WF_vars(Refill)
    /\ \A c \in Callers :
          /\ WF_vars(WaitToken(c))
          /\ WF_vars(WaitTokenCancelled(c))
          /\ WF_vars(TrySlot(c))
          /\ WF_vars(PollTimer(c))
          /\ WF_vars(PollCancelled(c))
          /\ WF_vars(Release(c))
          /\ WF_vars(Finish(c))

\* A call of c has its token and is in the loop that waits for a slot.
InSlotLoop(c) == pc[c] \in {"try_slot", "poll"}

\* C39: a call that has its token and is not cancelled comes to hold a slot
\* (or is cancelled after all).
C39_WaiterEventuallyHolds ==
    \A c \in Callers :
        (InSlotLoop(c) /\ ~ctxDone[c]) ~> (pc[c] = "holding" \/ ctxDone[c])

(***************************************************************************)
(* The sequential Extract (extractor.go:47-99) as a function of what the   *)
(* two fetches return and of the outcome of the write of each item, and    *)
(* the concurrent Extract against it.                                      *)
(***************************************************************************)
\* fmt.Errorf("failed to extract users: %w", err), ("failed to extract projects: %w", err)
ErrExtract(w) == [kind |-> "failed_to_extract", class |-> w]

\* for _, user := range users { if err := WriteUser(user); err != nil
\* { stats.Errors++; continue }; stats.UsersExtracted++ }, from item k on;
\* outcomes[k] is TRUE when the write of item k returns a nil error.
RECURSIVE WriteEach(_, _, _, _)
WriteEach(s, field, outcomes, k) ==
    IF k > Len(outcomes)
    THEN s
    ELSE WriteEach(IF outcomes[k]
                   THEN [s EXCEPT ![field] = @ + 1]
                   ELSE [s EXCEPT !.Errors = @ + 1],
                   field, outcomes, k + 1)

\* The sequential Extract: users are fetched and written, then projects; a
\* failed fetch returns the stats so far and the wrapped error.
SequentialExtract(fetch, outcomes) ==
    IF fetch[UserWorker].failed
    THEN [stats |-> ZeroStats, err |-> ErrExtract(UserWorker)]
    ELSE LET afterUsers == WriteEach(ZeroStats, "UsersExtracted", outcomes[UserWorker], 1)
         IN  IF fetch[ProjectWorker].failed
             THEN [stats |-> afterUsers, err |-> ErrExtract(ProjectWorker)]
             ELSE [stats |-> Stamp(WriteEach(afterUsers, "ProjectsExtracted",
                                             outcomes[ProjectWorker], 1)),
                   err |-> NilErr]

\* The outcomes of the writes of worker w so far, by item.
WriteOutcomes(w) == [k \in 1..Len(writeLog[w]) |-> writeLog[w][k].ok]

\* What the sequential Extract returns for the fetch results and the write
\* outcomes of this run.
SequentialResult == SequentialExtract(wRes, [w \in Workers |-> WriteOutcomes(w)])

\* C40: when the concurrent Extract has returned and both fetch stages
\* succeeded, it returns a nil error as the sequential Extract does for the
\* same fetch results and the same write outcomes, and with the same
\* UsersExtracted, ProjectsExtracted and Errors, whatever the interleaving.
C40_ConcurrentMatchesSequential ==
    (exRet.returned /\ BothFetched) =>
        /\ exRet.err = SequentialResult.err
        /\ stats.UsersExtracted = SequentialResult.stats.UsersExtracted
        /\ stats.ProjectsExtracted = SequentialResult.stats.ProjectsExtracted
        /\ stats.Errors = SequentialResult.stats.Errors

\* Extract has returned after one failed and one successful write of each
\* class, the failed user write first and the failed project write last.
C40_Witness ==
    /\ exRet.returned
    /\ BothFetched
    /\ wRes[UserWorker].n = 2 /\ wRes[ProjectWorker].n = 2
    /\ WriteOutcomes(UserWorker) = <<FALSE, TRUE>>
    /\ WriteOutcomes(ProjectWorker) = <<TRUE, FALSE>>
    /\ stats.UsersExtracted = 1 /\ stats.ProjectsExtracted = 1 /\ stats.Errors = 2

====
